---- MODULE Spec2Model ----
(***************************************************************************)
(* Substitution / restoration engine of the anonymizer:                    *)
(*   src/core/anonymizer.py    execute_replacement                         *)
(*   src/core/deanonymizer.py  restore_by_position, restore_by_context,    *)
(*                             restore_by_canonical, run_deanonymize       *)
(* Strings are sequences of one-character strings; offsets are 0-based as  *)
(* in the Python source.                                                   *)
(***************************************************************************)
EXTENDS Integers, Sequences, FiniteSets, TLC

(***************************************************************************)
(* Bounds of the model.                                                    *)
(***************************************************************************)
MaxDocLen == 3
MaxEntities == 2
MaxLog == 6
MaxEdits == 1
MaxSegments == 2
MaxSplitLen == 4
MaxSegmentChars == 3

(***************************************************************************)
(* Program constants.                                                      *)
(***************************************************************************)
ContextChars == 40
PositionWindow == 50

(***************************************************************************)
(* Python string primitives.                                               *)
(***************************************************************************)
Min(a, b) == IF a <= b THEN a ELSE b
Max(a, b) == IF a >= b THEN a ELSE b

\* s[lo:hi] for 0 <= lo, clamped to the string like a Python slice
Slice(s, lo, hi) ==
  LET h == Min(hi, Len(s))
  IN  IF lo >= h THEN <<>> ELSE SubSeq(s, lo + 1, h)

\* s[lo:]
SliceFrom(s, lo) == Slice(s, lo, Len(s))

\* s.find(sub, start): the lowest offset >= start at which sub occurs, or -1
Find(s, sub, start) ==
  LET hits == {i \in start..(Len(s) - Len(sub)) : Slice(s, i, i + Len(sub)) = sub}
  IN  IF hits = {} THEN -1 ELSE CHOOSE i \in hits : \A j \in hits : i <= j

Contains(s, sub) == Find(s, sub, 0) # -1

LowerLetters ==
  <<"a","b","c","d","e","f","g","h","i","j","k","l","m",
    "n","o","p","q","r","s","t","u","v","w","x","y","z">>
UpperLetters ==
  <<"A","B","C","D","E","F","G","H","I","J","K","L","M",
    "N","O","P","Q","R","S","T","U","V","W","X","Y","Z">>
DigitChars == <<"0","1","2","3","4","5","6","7","8","9">>

IsUpperChar(c) == \E i \in 1..26 : UpperLetters[i] = c
IsDigitChar(c) == \E i \in 1..10 : DigitChars[i] = c
IsSpaceChar(c) == c \in {" ", "\t", "\n"}

UpperChar(c) ==
  IF \E i \in 1..26 : LowerLetters[i] = c
  THEN UpperLetters[CHOOSE i \in 1..26 : LowerLetters[i] = c]
  ELSE c

\* a type used as it is written
UpperOmitted(s) == s

\* str.upper()
Upper(s) == [i \in 1..Len(s) |-> UpperChar(s[i])]

\* str.strip()
RECURSIVE LStrip(_)
LStrip(s) == IF s # <<>> /\ IsSpaceChar(s[1]) THEN LStrip(Tail(s)) ELSE s
RECURSIVE RStrip(_)
RStrip(s) ==
  IF s # <<>> /\ IsSpaceChar(s[Len(s)]) THEN RStrip(SubSeq(s, 1, Len(s) - 1)) ELSE s
Strip(s) == RStrip(LStrip(s))

\* str(n) for n >= 0
RECURSIVE DecStr(_)
DecStr(n) ==
  IF n < 10 THEN <<DigitChars[n + 1]>>
  ELSE DecStr(n \div 10) \o <<DigitChars[(n % 10) + 1]>>

(***************************************************************************)
(* re.finditer(r"\{[A-Z]+_\d+\}", text)                                    *)
(***************************************************************************)
\* number of consecutive characters from offset i on that are in the class
RECURSIVE RunLen(_, _, _)
RunLen(s, i, upper) ==
  IF i < Len(s) /\ (IF upper THEN IsUpperChar(s[i + 1]) ELSE IsDigitChar(s[i + 1]))
  THEN 1 + RunLen(s, i + 1, upper)
  ELSE 0

CharAt(s, i) == IF i >= 0 /\ i < Len(s) THEN s[i + 1] ELSE ""

\* length of the pattern's match starting at offset i, 0 when there is none
TokenLenAt(s, i) ==
  IF CharAt(s, i) # "{" THEN 0
  ELSE LET u == RunLen(s, i + 1, TRUE)
       IN  IF u = 0 \/ CharAt(s, i + 1 + u) # "_" THEN 0
           ELSE LET d == RunLen(s, i + 2 + u, FALSE)
                IN  IF d = 0 \/ CharAt(s, i + 2 + u + d) # "}" THEN 0
                    ELSE u + d + 3

\* the non-overlapping matches left to right, each [start, len]
RECURSIVE FindIterFrom(_, _)
FindIterFrom(s, i) ==
  IF i >= Len(s) THEN <<>>
  ELSE LET n == TokenLenAt(s, i)
       IN  IF n = 0 THEN FindIterFrom(s, i + 1)
           ELSE <<[start |-> i, len |-> n]>> \o FindIterFrom(s, i + n)

FindIter(s) == FindIterFrom(s, 0)

(***************************************************************************)
(* difflib.SequenceMatcher(None, a, b).ratio() as the fraction 2*M/T       *)
(* (1/1 when both strings are empty).  No junk: autojunk needs 200 chars.  *)
(***************************************************************************)
\* find_longest_match: longest common block, earliest in a, then earliest in b
LongestMatch(a, b) ==
  LET blocks == {t \in (0..Len(a)) \X (0..Len(b)) \X (1..Min(Len(a), Len(b))) :
                   /\ t[1] + t[3] <= Len(a)
                   /\ t[2] + t[3] <= Len(b)
                   /\ Slice(a, t[1], t[1] + t[3]) = Slice(b, t[2], t[2] + t[3])}
  IN  IF blocks = {} THEN <<0, 0, 0>>
      ELSE CHOOSE t \in blocks : \A u \in blocks :
             \/ t[3] > u[3]
             \/ t[3] = u[3] /\ t[1] < u[1]
             \/ t[3] = u[3] /\ t[1] = u[1] /\ t[2] <= u[2]

\* sum of the sizes of get_matching_blocks()
RECURSIVE MatchCount(_, _)
MatchCount(a, b) ==
  IF a = <<>> \/ b = <<>> THEN 0
  ELSE LET m == LongestMatch(a, b)
       IN  IF m[3] = 0 THEN 0
           ELSE m[3]
                + MatchCount(Slice(a, 0, m[1]), Slice(b, 0, m[2]))
                + MatchCount(SliceFrom(a, m[1] + m[3]), SliceFrom(b, m[2] + m[3]))

Ratio(a, b) ==
  IF Len(a) + Len(b) = 0 THEN [n |-> 1, d |-> 1]
  ELSE [n |-> 2 * MatchCount(a, b), d |-> Len(a) + Len(b)]

(***************************************************************************)
(* Inputs: document text, entity mentions {text, type, canonical} and      *)
(* alias groups {canonical, aliases}.                                      *)
(***************************************************************************)
DocChars == {"a", "P"}

RECURSIVE StringsUpTo(_, _)
StringsUpTo(chars, n) ==
  IF n = 0 THEN {<<>>}
  ELSE LET shorter == StringsUpTo(chars, n - 1)
       IN  shorter \cup {Append(s, c) : s \in shorter, c \in chars}

Documents == StringsUpTo(DocChars, MaxDocLen)

Mention(t, ty, c) == [text |-> t, type |-> ty, canonical |-> c]

Mentions ==
  { Mention(<<"a">>, <<"p">>, <<>>),
    Mention(<<"P">>, <<"P">>, <<>>),
    Mention(<<" ","a">>, <<"p","_","1">>, <<" ">>),
    Mention(<<"a">>, <<"q">>, <<"P"," ">>),
    Mention(<<" ">>, <<"q">>, <<"a">>) }

EntityLists == UNION {[1..n -> Mentions] : n \in 0..MaxEntities}

AliasGroup(c, als) == [canonical |-> c, aliases |-> als]

AliasLists ==
  { <<>>,
    <<AliasGroup(<<"a">>, <<<<"a","a">>>>)>>,
    <<AliasGroup(<<"a">>, <<<<>>>>), AliasGroup(<<"b">>, <<<<"P">>>>)>> }

\* the scenario of the specification's section 8
ScenarioText ==
  <<"J","o","h","n"," ","S","m","i","t","h"," ","s","i","g","n","e","d","."," ",
    "C","o","n","t","a","c","t",":"," ",
    "J","o","h","n"," ","S","m","i","t","h"," ","a","t"," ",
    "j","o","h","n","@","x",".","c","o","m",".">>
ScenarioEntities ==
  << Mention(<<"J","o","h","n"," ","S","m","i","t","h">>,
             <<"p","e","r","s","o","n">>, <<>>),
     Mention(<<"j","o","h","n","@","x",".","c","o","m">>,
             <<"e","m","a","i","l">>, <<>>) >>

(***************************************************************************)
(* execute_replacement, step 1: canonical groups and placeholder ids.      *)
(* A dict is a sequence of [k, v] in insertion order.                      *)
(***************************************************************************)
KeyIndex(dict, key) ==
  IF \E i \in 1..Len(dict) : dict[i].k = key
  THEN CHOOSE i \in 1..Len(dict) : dict[i].k = key
  ELSE 0

HasKey(dict, key) == KeyIndex(dict, key) # 0

\* a dict whose existing keys are never overwritten
DictPutKeepFirst(dict, key, val) ==
  IF HasKey(dict, key) THEN dict ELSE Append(dict, [k |-> key, v |-> val])

\* dict[key] = val: a new key goes last, an existing key keeps its place
DictPut(dict, key, val) ==
  IF HasKey(dict, key)
  THEN [dict EXCEPT ![KeyIndex(dict, key)].v = val]
  ELSE Append(dict, [k |-> key, v |-> val])

DictGet(dict, key) == dict[KeyIndex(dict, key)].v

DictKeys(dict) == [i \in 1..Len(dict) |-> dict[i].k]

\* the text a mention contributes, after strip()
EntityText(e) == Strip(e.text)

\* the key of the group a mention joins
GroupKey(e) == IF Strip(e.canonical) # <<>> THEN Strip(e.canonical) ELSE Strip(e.text)

\* the loop body with the group's type taken from every mention that joins it
AddMentionLastType(groups, e) ==
  IF EntityText(e) = <<>> THEN groups
  ELSE LET key     == GroupKey(e)
           created == IF HasKey(groups, key) THEN groups
                      ELSE Append(groups, [k |-> key,
                                           v |-> [type |-> e.type, texts |-> {},
                                                  aliases |-> <<>>]])
           i       == KeyIndex(created, key)
           added   == {EntityText(e)}
                        \cup (IF Strip(e.canonical) # <<>> THEN {Strip(e.canonical)} ELSE {})
       IN  [created EXCEPT ![i].v.texts = @ \cup added, ![i].v.type = e.type]

\* one iteration of the loop over entities
AddMention(groups, e) ==
  IF EntityText(e) = <<>> THEN groups
  ELSE LET key     == GroupKey(e)
           created == IF HasKey(groups, key) THEN groups
                      ELSE Append(groups, [k |-> key,
                                           v |-> [type |-> e.type, texts |-> {},
                                                  aliases |-> <<>>]])
           i       == KeyIndex(created, key)
           added   == {EntityText(e)}
                        \cup (IF Strip(e.canonical) # <<>> THEN {Strip(e.canonical)} ELSE {})
       IN  [created EXCEPT ![i].v.texts = @ \cup added]

RECURSIVE GroupMentions(_, _)
GroupMentions(ents, n) ==
  IF n = 0 THEN <<>> ELSE AddMention(GroupMentions(ents, n - 1), ents[n])

\* the aliases of one alias group go to the group its canonical names, if any
RangeOf(s) == {s[i] : i \in 1..Len(s)}

\* an alias group whose canonical names no group opens a group of its own
AddAliasGroupCreating(groups, ag) ==
  LET created == IF HasKey(groups, ag.canonical) THEN groups
                 ELSE Append(groups, [k |-> ag.canonical,
                                      v |-> [type |-> <<"u","n","k","n","o","w","n">>,
                                             texts |-> {}, aliases |-> <<>>]])
      i       == KeyIndex(created, ag.canonical)
  IN  [created EXCEPT ![i].v.texts = @ \cup RangeOf(ag.aliases),
                      ![i].v.aliases = @ \o ag.aliases]

AddAliasGroup(groups, ag) ==
  IF ~HasKey(groups, ag.canonical) THEN groups
  ELSE LET i == KeyIndex(groups, ag.canonical)
       IN  [groups EXCEPT ![i].v.texts = @ \cup RangeOf(ag.aliases),
                          ![i].v.aliases = @ \o ag.aliases]

RECURSIVE FoldAliases(_, _, _)
FoldAliases(groups, als, n) ==
  IF n = 0 THEN groups ELSE AddAliasGroup(FoldAliases(groups, als, n - 1), als[n])

CanonicalGroups(ents, als) ==
  FoldAliases(GroupMentions(ents, Len(ents)), als, Len(als))

\* "{" + TYPE + "_" + str(n) + "}"
PlaceholderId(upperType, n) == <<"{">> \o upperType \o <<"_">> \o DecStr(n) \o <<"}">>

\* a counter per type as written, not per upper-cased type
CounterKeyRaw(type) == type

\* the key of type_counters for a group's type
CounterKey(type) == Upper(type)

\* first value of a per-type counter
FirstOrdinal == 1

Bump(counters, key) ==
  IF key \in DOMAIN counters
  THEN [counters EXCEPT ![key] = @ + 1]
  ELSE counters @@ (key :> FirstOrdinal)

\* the orders in which a set can be iterated
RECURSIVE Orders(_)
Orders(S) ==
  IF S = {} THEN {<<>>}
  ELSE UNION {{<<x>> \o o : o \in Orders(S \ {x})} : x \in S}

\* one iteration order for the texts of each group
RECURSIVE IterationOrders(_, _)
IterationOrders(groups, n) ==
  IF n = 0 THEN {<<>>}
  ELSE {Append(os, o) : os \in IterationOrders(groups, n - 1),
                        o \in Orders(groups[n].v.texts)}

\* text_to_placeholder[t] = placeholder for t in the iteration order
RECURSIVE PutAll(_, _, _, _)
PutAll(dict, order, n, ph) ==
  IF n = 0 THEN dict ELSE DictPut(PutAll(dict, order, n - 1, ph), order[n], ph)

\* state of the assignment loop after the first n groups
RECURSIVE Assign(_, _, _)
Assign(groups, orders, n) ==
  IF n = 0
  THEN [type_counters |-> <<>>, placeholder_map |-> <<>>, text_to_placeholder |-> <<>>]
  ELSE LET prev     == Assign(groups, orders, n - 1)
           g        == groups[n]
           key      == CounterKey(g.v.type)
           counters == Bump(prev.type_counters, key)
           ph       == PlaceholderId(Upper(g.v.type), counters[key])
       IN  [type_counters |-> counters,
            placeholder_map |->
              DictPut(prev.placeholder_map, ph,
                      [value |-> g.k, type |-> g.v.type, aliases |-> g.v.texts \ {g.k}]),
            text_to_placeholder |->
              PutAll(prev.text_to_placeholder, orders[n], Len(orders[n]), ph)]

\* a descending sort that puts an item before the earlier items of equal key
InsertDescTiesReversed(sorted, x) ==
  LET before == {i \in 1..Len(sorted) : sorted[i].key > x.key}
      n      == IF before = {} THEN 0 ELSE CHOOSE i \in before : \A j \in before : j <= i
  IN  SubSeq(sorted, 1, n) \o <<x>> \o SubSeq(sorted, n + 1, Len(sorted))

\* sorted(xs, key=..., reverse=True) over items [key, item]: descending by
\* key, items of equal key keep their order
InsertDesc(sorted, x) ==
  LET before == {i \in 1..Len(sorted) : sorted[i].key >= x.key}
      n      == IF before = {} THEN 0 ELSE CHOOSE i \in before : \A j \in before : j <= i
  IN  SubSeq(sorted, 1, n) \o <<x>> \o SubSeq(sorted, n + 1, Len(sorted))

RECURSIVE SortDesc(_, _)
SortDesc(xs, n) ==
  IF n = 0 THEN <<>> ELSE InsertDesc(SortDesc(xs, n - 1), xs[n])

Items(keyed) == [i \in 1..Len(keyed) |-> keyed[i].item]

\* sorted(text_to_placeholder.keys(), key=len, reverse=True)
SortedTexts(t2p) ==
  LET keyed == [i \in 1..Len(t2p) |-> [key |-> Len(t2p[i].k), item |-> t2p[i].k]]
  IN  Items(SortDesc(keyed, Len(keyed)))

(***************************************************************************)
(* State.                                                                  *)
(***************************************************************************)
VARIABLES
  source_text,          \* execute_replacement's text argument
  entities,             \* its entity list
  pass1_aliases,        \* pass1_result["aliases"]
  pc,                   \* where the caller is
  run,                  \* 1 for the first run of execute_replacement, 2 for the second
  first_run,            \* what the first run returned, kept by the caller
  canonical_groups, placeholder_map, text_to_placeholder,
  sorted_texts,
  lit,                  \* index into sorted_texts of the literal being scanned
  search_start,
  anonymized_text,
  replacement_log,
  inserted,             \* per character of anonymized_text: 0 for a character of
                        \* the document, k for one inserted by log record k
  mapping,              \* the artifact returned by execute_replacement
  given_text,           \* the text handed to run_deanonymize
  edits,                \* number of external edits made to given_text
  running,              \* run_deanonymize's locals: text, the counters and, as
                        \* history, origin (per character of text its 1-based
                        \* index in given_text, 0 for a character written by a
                        \* restoration step) and resolved (one [step, tags] per
                        \* replacement made)
  sorted_log,
  idx,                  \* loop index of the current restoration step
  matches,              \* tokens scanned at the start of step B or C
  stats,                \* what run_deanonymize returns beside the text
  scan,                 \* the two extraction passes: where they are, max_chars
                        \* of the split, the segments,
                        \* the loop index, pass 1's aliases, all_entities, what
                        \* run_second_pass returned and, as history, the number
                        \* of collaborator calls that failed
  session               \* the anonymize page: the file in the uploader and
                        \* st.session_state; a result carries, as history, the
                        \* upload it was computed from

anon_vars == <<canonical_groups, placeholder_map, text_to_placeholder, sorted_texts,
               lit, search_start, anonymized_text, replacement_log, inserted>>
input_vars == <<source_text, entities, pass1_aliases>>
restore_vars == <<running, sorted_log, idx, matches, stats>>
vars == <<input_vars, pc, run, first_run, anon_vars, mapping, given_text, edits,
          restore_vars, scan, session>>

Zeros(n) == [i \in 1..n |-> 0]
Identity(n) == [i \in 1..n |-> i]
NoStats == [position_matched |-> -1, context_matched |-> -1, fallback_count |-> -1,
            remaining_placeholders |-> -1, total_in_log |-> -1]
NoMapping == [metadata |-> [entity_count |-> -1], mappings |-> <<>>,
              replacement_log |-> <<>>]
NotRunning ==
  [text |-> <<>>, origin |-> <<>>, resolved |-> <<>>,
   position_matched |-> 0, position_unmatched |-> 0,
   context_matched |-> 0, fallback_count |-> 0]
NoRun == [text |-> <<>>, mapping |-> NoMapping]
NoScan == [stage |-> "none", max_chars |-> 0, segments |-> <<>>, i |-> 0,
           aliases |-> <<>>, all_entities |-> <<>>, unique_entities |-> <<>>,
           failed |-> 0]

\* no file in the uploader
NoFile == [name |-> <<>>, bytes |-> 0, readable |-> FALSE]
\* None as the value of a result key
NoResult == [of |-> 0, reviewed |-> FALSE]
\* the session keys as render initialises them; an upload is named by the
\* number of its content, 0 standing for None
InitialSession ==
  [uploaded_file |-> NoFile,
   uploaded_text |-> 0, uploaded_filename |-> <<>>,
   uploaded_bytes |-> 0, uploaded_ext |-> <<>>,
   pass1_result |-> NoResult, pass1_confirmed |-> FALSE,
   pass2_result |-> NoResult, pass2_confirmed |-> FALSE,
   anonymized_text |-> 0, anonymized_file_bytes |-> 0, mapping_data |-> 0]

Fresh ==
  /\ session = InitialSession
  /\ pc = "start"
  /\ run = 1
  /\ first_run = NoRun
  /\ canonical_groups = <<>>
  /\ placeholder_map = <<>>
  /\ text_to_placeholder = <<>>
  /\ sorted_texts = <<>>
  /\ lit = 0
  /\ search_start = 0
  /\ anonymized_text = <<>>
  /\ replacement_log = <<>>
  /\ inserted = <<>>
  /\ mapping = NoMapping
  /\ given_text = <<>>
  /\ edits = 0
  /\ running = NotRunning
  /\ sorted_log = <<>>
  /\ idx = 0
  /\ matches = <<>>
  /\ stats = NoStats

Init ==
  /\ \/ /\ source_text \in Documents
        /\ entities \in EntityLists
        /\ pass1_aliases \in AliasLists
     \/ /\ source_text = ScenarioText
        /\ entities = ScenarioEntities
        /\ pass1_aliases = <<>>
  /\ Fresh
  /\ scan = NoScan

(***************************************************************************)
(* execute_replacement                                                     *)
(***************************************************************************)
\* Step 1 (groups, alias folding, placeholder ids, literal map) and the sort
\* that opens step 2.  Iterating a group's set of texts has no defined order.
AssignPlaceholders ==
  /\ pc = "start"
  /\ LET groups == CanonicalGroups(entities, pass1_aliases)
     IN  \E orders \in IterationOrders(groups, Len(groups)) :
           LET a == Assign(groups, orders, Len(groups))
           IN  /\ canonical_groups' = groups
               /\ placeholder_map' = a.placeholder_map
               /\ text_to_placeholder' = a.text_to_placeholder
               /\ sorted_texts' = SortedTexts(a.text_to_placeholder)
  /\ lit' = 1
  /\ search_start' = 0
  /\ anonymized_text' = source_text
  /\ inserted' = Zeros(Len(source_text))
  /\ replacement_log' = <<>>
  /\ pc' = "replace"
  /\ UNCHANGED <<session, input_vars, scan, run, first_run, mapping, given_text, edits, restore_vars>>

\* where the cursor goes after a hit at pos
NextSearchStart(pos, entity_text, placeholder) == pos + Len(placeholder)

\* the context before a hit taken from the document as it was given
ContextBeforePristine(text, pos) == Slice(source_text, Max(0, pos - ContextChars), pos)

\* anonymized_text[max(0, pos - 40) : pos]
ContextBefore(text, pos) == Slice(text, Max(0, pos - ContextChars), pos)

\* anonymized_text[pos + len(entity_text) : pos + len(entity_text) + 40]
ContextAfter(text, pos, n) == Slice(text, pos + n, pos + n + ContextChars)

\* a log that takes a new record at its head
LoggedFirst(log, rec) == <<rec>> \o log

\* replacement_log.append(rec)
Logged(log, rec) == Append(log, rec)

\* one hit of the while loop: record, substitute, advance the cursor
ReplaceOccurrence ==
  /\ pc = "replace"
  /\ lit <= Len(sorted_texts)
  /\ Len(replacement_log) < MaxLog
  /\ LET entity_text == sorted_texts[lit]
         placeholder == DictGet(text_to_placeholder, entity_text)
         pos         == Find(anonymized_text, entity_text, search_start)
     IN  /\ pos # -1
         /\ replacement_log' = Logged(replacement_log,
              [placeholder    |-> placeholder,
               original_text  |-> entity_text,
               position       |-> pos,
               context_before |-> ContextBefore(anonymized_text, pos),
               context_after  |-> ContextAfter(anonymized_text, pos, Len(entity_text))])
         /\ anonymized_text' = Slice(anonymized_text, 0, pos) \o placeholder
                                 \o SliceFrom(anonymized_text, pos + Len(entity_text))
         /\ inserted' = Slice(inserted, 0, pos)
                          \o [i \in 1..Len(placeholder) |-> Len(replacement_log) + 1]
                          \o SliceFrom(inserted, pos + Len(entity_text))
         /\ search_start' = NextSearchStart(pos, entity_text, placeholder)
  /\ UNCHANGED <<session, input_vars, scan, pc, run, first_run, canonical_groups, placeholder_map,
                 text_to_placeholder, sorted_texts, lit, mapping, given_text, edits,
                 restore_vars>>

\* find returned -1: the while loop breaks and the for loop takes the next literal
NextLiteral ==
  /\ pc = "replace"
  /\ lit <= Len(sorted_texts)
  /\ Find(anonymized_text, sorted_texts[lit], search_start) = -1
  /\ lit' = lit + 1
  /\ search_start' = 0
  /\ UNCHANGED <<session, input_vars, scan, pc, run, first_run, canonical_groups, placeholder_map,
                 text_to_placeholder, sorted_texts, anonymized_text, replacement_log,
                 inserted, mapping, given_text, edits, restore_vars>>

\* the number of literal strings of the groups
LiteralCount(groups) ==
  Cardinality(UNION {groups[i].v.texts : i \in 1..Len(groups)})

\* metadata.entity_count: len(canonical_groups)
EntityCount(groups) == Len(groups)

\* Step 3: the mapping table (created_at and source_file carry no behaviour)
AssembleMapping ==
  /\ pc = "replace"
  /\ lit > Len(sorted_texts)
  /\ mapping' = [metadata |-> [entity_count |-> EntityCount(canonical_groups)],
                 mappings |-> placeholder_map,
                 replacement_log |-> replacement_log]
  /\ given_text' = anonymized_text
  /\ pc' = "anonymized"
  /\ UNCHANGED <<session, input_vars, scan, run, first_run, anon_vars, edits, restore_vars>>

\* the caller runs execute_replacement again on the same inputs
Rerun ==
  /\ pc = "anonymized"
  /\ run = 1
  /\ edits = 0
  /\ first_run' = [text |-> anonymized_text, mapping |-> mapping]
  /\ run' = 2
  /\ pc' = "start"
  /\ UNCHANGED <<session, input_vars, scan, anon_vars, mapping, given_text, edits, restore_vars>>

(***************************************************************************)
(* The placeholder-bearing text is edited outside the engine before it is  *)
(* restored: a character is deleted or inserted, or a token is pasted.     *)
(***************************************************************************)
EditChars == {"a", "}"}

Edited(t, ids) ==
  {Slice(t, 0, i) \o SliceFrom(t, i + 1) : i \in 0..(Len(t) - 1)}
    \cup {Slice(t, 0, i) \o <<c>> \o SliceFrom(t, i) : i \in 0..Len(t), c \in EditChars}
    \cup {Slice(t, 0, i) \o id \o SliceFrom(t, i) : i \in 0..Len(t), id \in ids}

ExternalEdit ==
  /\ pc = "anonymized"
  /\ edits < MaxEdits
  /\ given_text' \in Edited(given_text, RangeOf(DictKeys(mapping.mappings)))
  /\ edits' = edits + 1
  /\ UNCHANGED <<session, input_vars, scan, pc, run, first_run, anon_vars, mapping, restore_vars>>

(***************************************************************************)
(* run_deanonymize.  The three steps work on a record                      *)
(*   [text, origin, resolved, position_matched, position_unmatched,        *)
(*    context_matched, fallback_count]                                     *)
(* of the running text and the counters.                                   *)
(***************************************************************************)
\* sorted(replacement_log, key=position, reverse=True)
SortedLog(log) ==
  LET keyed == [i \in 1..Len(log) |-> [key |-> log[i].position, item |-> log[i]]]
  IN  Items(SortDesc(keyed, Len(keyed)))

\* the caller's list had restore_by_position sorted it in place
CallerLogSortedInPlace(log) == SortedLog(log)

\* the caller's list after restore_by_position: sorted() builds a new list and
\* leaves its argument as it is
CallerLog(log) == log

\* text[:pos] + new + text[pos + n:]
Splice(t, pos, n, new) == Slice(t, 0, pos) \o new \o SliceFrom(t, pos + n)

\* a step replaces the n characters at pos by new
Replaced(r, step, pos, n, new) ==
  [r EXCEPT !.text = Splice(r.text, pos, n, new),
            !.origin = Splice(r.origin, pos, n, Zeros(Len(new))),
            !.resolved = Append(r.resolved,
                                [step |-> step, tags |-> Slice(r.origin, pos, pos + n)])]

Started(given) ==
  [text |-> given, origin |-> Identity(Len(given)), resolved |-> <<>>,
   position_matched |-> 0, position_unmatched |-> 0,
   context_matched |-> 0, fallback_count |-> 0]

\* Step A, one log record: search the window around the recorded position
WindowStart(entry) == Max(0, entry.position - PositionWindow)
\* a search that runs to the end of the text
WindowEndWholeText(t, entry) == Len(t)

WindowEnd(t, entry) ==
  Min(Len(t), entry.position + Len(entry.placeholder) + PositionWindow)

PositionIter(r, entry) ==
  LET search_region == Slice(r.text, WindowStart(entry), WindowEnd(r.text, entry))
      local_pos     == Find(search_region, entry.placeholder, 0)
      actual_pos    == WindowStart(entry) + local_pos
  IN  IF local_pos # -1
      THEN [Replaced(r, "A", actual_pos, Len(entry.placeholder), entry.original_text)
              EXCEPT !.position_matched = @ + 1]
      ELSE [r EXCEPT !.position_unmatched = @ + 1]

\* restore_by_position over the first n records of the sorted log
RECURSIVE PositionLoop(_, _, _)
PositionLoop(r, slog, n) ==
  IF n = 0 THEN r ELSE PositionIter(PositionLoop(r, slog, n - 1), slog[n])

\* the tokens listed from the last to the first, so that a loop that takes
\* the end of the list first goes through the text from left to right
TokensLastFirst(t) ==
  LET ms == FindIter(t)
  IN  [i \in 1..Len(ms) |->
         [start |-> ms[Len(ms) + 1 - i].start,
          token |-> Slice(t, ms[Len(ms) + 1 - i].start,
                          ms[Len(ms) + 1 - i].start + ms[Len(ms) + 1 - i].len)]]

\* the tokens of a text, each [start, token]
Tokens(t) ==
  LET ms == FindIter(t)
  IN  [i \in 1..Len(ms) |->
         [start |-> ms[i].start,
          token |-> Slice(t, ms[i].start, ms[i].start + ms[i].len)]]

\* total_score = (score_before + score_after) / 2, as a fraction
TotalScore(current_before, current_after, entry) ==
  LET b == Ratio(current_before, entry.context_before)
      a == Ratio(current_after, entry.context_after)
  IN  [n |-> b.n * a.d + a.n * b.d, d |-> 2 * b.d * a.d]

\* a comparison that lets a later record of equal score take over
GreaterOrEqual(x, y) == x.n * y.d >= y.n * x.d

\* total_score > best_score
Greater(x, y) == x.n * y.d > y.n * x.d

\* best_score, best_entry (0 for None) after the first n records of the log
RECURSIVE BestAfter(_, _, _, _, _)
BestAfter(log, n, placeholder_text, current_before, current_after) ==
  IF n = 0 THEN [score |-> [n |-> 0, d |-> 1], entry |-> 0]
  ELSE LET prev == BestAfter(log, n - 1, placeholder_text, current_before, current_after)
       IN  IF log[n].placeholder # placeholder_text THEN prev
           ELSE LET total == TotalScore(current_before, current_after, log[n])
                IN  IF Greater(total, prev.score)
                    THEN [score |-> total, entry |-> n]
                    ELSE prev

\* what step B finds for the token m of the current text
BestFor(t, m, log) ==
  BestAfter(log, Len(log), m.token,
            Slice(t, Max(0, m.start - ContextChars), m.start),
            Slice(t, m.start + Len(m.token), m.start + Len(m.token) + ContextChars))

\* best_score >= 0.5
AtOrAboveThreshold(score) == 2 * score.n >= score.d

\* best_score > 0.5
AboveThreshold(score) == 2 * score.n > score.d

\* Step B, one token
ContextIter(r, m, log) ==
  LET best == BestFor(r.text, m, log)
  IN  IF best.entry # 0 /\ AboveThreshold(best.score)
      THEN [Replaced(r, "B", m.start, Len(m.token), log[best.entry].original_text)
              EXCEPT !.context_matched = @ + 1]
      ELSE r

\* restore_by_context over the matches ms[i], ..., ms[1], last match first
RECURSIVE ContextLoop(_, _, _, _)
ContextLoop(r, ms, i, log) ==
  IF i = 0 THEN r ELSE ContextLoop(ContextIter(r, ms[i], log), ms, i - 1, log)

\* Step C counting a token whose id is not in mappings as a fallback
CanonicalIterCountingAll(r, m, mappings) ==
  IF HasKey(mappings, m.token)
  THEN [Replaced(r, "C", m.start, Len(m.token), DictGet(mappings, m.token).value)
          EXCEPT !.fallback_count = @ + 1]
  ELSE [r EXCEPT !.fallback_count = @ + 1]

\* Step C, one token
CanonicalIter(r, m, mappings) ==
  IF HasKey(mappings, m.token)
  THEN [Replaced(r, "C", m.start, Len(m.token), DictGet(mappings, m.token).value)
          EXCEPT !.fallback_count = @ + 1]
  ELSE r

RECURSIVE CanonicalLoop(_, _, _, _)
CanonicalLoop(r, ms, i, mappings) ==
  IF i = 0 THEN r ELSE CanonicalLoop(CanonicalIter(r, ms[i], mappings), ms, i - 1, mappings)

\* step B handed the text run_deanonymize was given, not the result of step A
ContextInputStale(afterA, given) ==
  [afterA EXCEPT !.text = given, !.origin = Identity(Len(given))]

\* what run_deanonymize hands to step B: the result of step A
ContextInput(afterA, given) == afterA

\* stats that take what is left to be the log records step A did not match
StatsLeftFromLog(r, m) ==
  [position_matched |-> r.position_matched,
   context_matched |-> r.context_matched,
   fallback_count |-> r.fallback_count,
   remaining_placeholders |-> Len(m.replacement_log) - r.position_matched,
   total_in_log |-> Len(m.replacement_log)]

\* the stats run_deanonymize returns
Stats(r, m) ==
  [position_matched |-> r.position_matched,
   context_matched |-> r.context_matched,
   fallback_count |-> r.fallback_count,
   remaining_placeholders |-> Len(FindIter(r.text)),
   total_in_log |-> Len(m.replacement_log)]

\* restore_by_position on the text given
AfterPosition(given, m) ==
  PositionLoop(Started(given), SortedLog(m.replacement_log), Len(m.replacement_log))

(***************************************************************************)
(* run_deanonymize, one call of a step at a time.                          *)
(***************************************************************************)
\* Step A: restore_by_position(text, replacement_log)
RestoreByPosition ==
  /\ pc = "anonymized"
  /\ running' = AfterPosition(given_text, mapping)
  /\ sorted_log' = SortedLog(mapping.replacement_log)
  /\ mapping' = [mapping EXCEPT !.replacement_log = CallerLog(@)]
  /\ stats' = NoStats
  /\ pc' = "position_done"
  /\ UNCHANGED <<session, input_vars, scan, run, first_run, anon_vars, given_text, edits,
                 idx, matches>>

\* Step B: restore_by_context(text, replacement_log)
RestoreByContext ==
  /\ pc = "position_done"
  /\ running' = ContextLoop(ContextInput(running, given_text),
                            Tokens(ContextInput(running, given_text).text),
                            Len(Tokens(ContextInput(running, given_text).text)),
                            mapping.replacement_log)
  /\ pc' = "context_done"
  /\ UNCHANGED <<session, input_vars, scan, run, first_run, anon_vars, mapping, given_text, edits,
                 sorted_log, idx, matches, stats>>

\* Step C: restore_by_canonical(text, mappings), then the count of what is left
RestoreByCanonical ==
  /\ pc = "context_done"
  /\ running' = CanonicalLoop(running, Tokens(running.text), Len(Tokens(running.text)),
                              mapping.mappings)
  /\ stats' = Stats(running', mapping)
  /\ pc' = "done"
  /\ UNCHANGED <<session, input_vars, scan, run, first_run, anon_vars, mapping, given_text, edits,
                 sorted_log, idx, matches>>

(***************************************************************************)
(* run_deanonymize, one loop iteration at a time.                          *)
(***************************************************************************)
\* run_deanonymize reads the artifact; restore_by_position sorts the log
StartDeanonymize ==
  /\ pc = "anonymized"
  /\ running' = Started(given_text)
  /\ sorted_log' = SortedLog(mapping.replacement_log)
  /\ mapping' = [mapping EXCEPT !.replacement_log = CallerLog(@)]
  /\ idx' = 1
  /\ matches' = <<>>
  /\ stats' = NoStats
  /\ pc' = "position"
  /\ UNCHANGED <<session, input_vars, scan, run, first_run, anon_vars, given_text, edits>>

\* Step A raising on a log record whose placeholder is not in its window
PositionStepRaising ==
  /\ pc = "position"
  /\ idx <= Len(sorted_log)
  /\ running' = PositionIter(running, sorted_log[idx])
  /\ IF running'.position_unmatched > running.position_unmatched
     THEN pc' = "raised" /\ idx' = idx
     ELSE pc' = pc /\ idx' = idx + 1
  /\ UNCHANGED <<session, input_vars, scan, run, first_run, anon_vars, mapping, given_text, edits,
                 sorted_log, matches, stats>>

PositionStep ==
  /\ pc = "position"
  /\ idx <= Len(sorted_log)
  /\ running' = PositionIter(running, sorted_log[idx])
  /\ idx' = idx + 1
  /\ UNCHANGED <<session, input_vars, scan, pc, run, first_run, anon_vars, mapping, given_text, edits,
                 sorted_log, matches, stats>>

\* Step A returns; step B scans what it is given for tokens
StartContext ==
  /\ pc = "position"
  /\ idx > Len(sorted_log)
  /\ running' = ContextInput(running, given_text)
  /\ matches' = Tokens(running'.text)
  /\ idx' = Len(Tokens(running'.text))
  /\ pc' = "context"
  /\ UNCHANGED <<session, input_vars, scan, run, first_run, anon_vars, mapping, given_text, edits,
                 sorted_log, stats>>

\* Step B, from the last match to the first
ContextStep ==
  /\ pc = "context"
  /\ idx >= 1
  /\ running' = ContextIter(running, matches[idx], mapping.replacement_log)
  /\ idx' = idx - 1
  /\ UNCHANGED <<session, input_vars, scan, pc, run, first_run, anon_vars, mapping, given_text, edits,
                 sorted_log, matches, stats>>

\* Step B returns; step C scans the text for tokens
StartCanonical ==
  /\ pc = "context"
  /\ idx = 0
  /\ matches' = Tokens(running.text)
  /\ idx' = Len(Tokens(running.text))
  /\ pc' = "canonical"
  /\ UNCHANGED <<session, input_vars, scan, run, first_run, anon_vars, mapping, given_text, edits,
                 running, sorted_log, stats>>

\* Step C, from the last match to the first
CanonicalStep ==
  /\ pc = "canonical"
  /\ idx >= 1
  /\ running' = CanonicalIter(running, matches[idx], mapping.mappings)
  /\ idx' = idx - 1
  /\ UNCHANGED <<session, input_vars, scan, pc, run, first_run, anon_vars, mapping, given_text, edits,
                 sorted_log, matches, stats>>

\* Step C returns; run_deanonymize counts what is left and builds stats
Finish ==
  /\ pc = "canonical"
  /\ idx = 0
  /\ stats' = Stats(running, mapping)
  /\ pc' = "done"
  /\ UNCHANGED <<session, input_vars, scan, run, first_run, anon_vars, mapping, given_text, edits,
                 running, sorted_log, idx, matches>>

(***************************************************************************)
(* run_first_pass and run_second_pass.  The collaborator (call_llm, then   *)
(* parse_json_response) either raises or returns parsed JSON.              *)
(***************************************************************************)
SegmentTexts == {<<"a">>, <<"P">>}
SegmentLists == UNION {[1..n -> SegmentTexts] : n \in 0..MaxSegments}

\* pass 1: an exception, an object without "aliases", an object with them
Pass1Replies ==
  { [ok |-> FALSE, has_aliases |-> FALSE, aliases |-> <<>>],
    [ok |-> TRUE, has_aliases |-> FALSE, aliases |-> <<>>],
    [ok |-> TRUE, has_aliases |-> TRUE,
     aliases |-> <<AliasGroup(<<"a">>, <<<<"P">>>>)>>] }

\* pass 2 on one segment: an exception, JSON that is no list, a list
Pass2Replies(segment) ==
  { [ok |-> FALSE, is_list |-> FALSE, entities |-> <<>>],
    [ok |-> TRUE, is_list |-> FALSE, entities |-> <<>>],
    [ok |-> TRUE, is_list |-> TRUE, entities |-> <<>>],
    [ok |-> TRUE, is_list |-> TRUE, entities |-> <<Mention(segment, <<"p">>, <<>>)>>] }

\* run_first_pass: the call is not guarded, an exception leaves the function
FirstPass ==
  /\ scan.stage = "pass1"
  /\ \E reply \in Pass1Replies :
       scan' = IF reply.ok
               THEN [scan EXCEPT !.stage = "pass2", !.i = 1,
                                 !.aliases = IF reply.has_aliases THEN reply.aliases
                                             ELSE <<>>]
               ELSE [scan EXCEPT !.stage = "raised", !.failed = @ + 1]
  /\ UNCHANGED <<session, input_vars, pc, run, first_run, anon_vars, mapping, given_text, edits,
                 restore_vars>>

\* what the except clause of run_second_pass's loop does with a failed segment
AfterFailedSegment(sc) == [sc EXCEPT !.i = @ + 1, !.failed = @ + 1]

\* one iteration of run_second_pass's loop over the segments
ScanSegment ==
  /\ scan.stage = "pass2"
  /\ scan.i <= Len(scan.segments)
  /\ \E reply \in Pass2Replies(scan.segments[scan.i]) :
       scan' = IF ~reply.ok THEN AfterFailedSegment(scan)
               ELSE IF reply.is_list
               THEN [scan EXCEPT !.i = @ + 1,
                                 !.all_entities = @ \o reply.entities]
               ELSE [scan EXCEPT !.i = @ + 1]
  /\ UNCHANGED <<session, input_vars, pc, run, first_run, anon_vars, mapping, given_text, edits,
                 restore_vars>>

\* de-duplication by (text, type) of the first n entities, blank texts dropped
RECURSIVE Dedupe(_, _)
Dedupe(all, n) ==
  IF n = 0 THEN <<>>
  ELSE LET before == Dedupe(all, n - 1)
           seen   == \E j \in 1..(n - 1) :
                       all[j].text = all[n].text /\ all[j].type = all[n].type
       IN  IF ~seen /\ Strip(all[n].text) # <<>> THEN Append(before, all[n]) ELSE before

\* _link_aliases on one entity: the first alias group that names its text
LinkOne(e, aliases) ==
  LET names(g) == {aliases[g].canonical} \cup RangeOf(aliases[g].aliases)
      hits     == {g \in 1..Len(aliases) : e.text \in names(g)}
  IN  IF e.canonical # <<>> \/ hits = {} THEN e
      ELSE [e EXCEPT !.canonical =
              aliases[CHOOSE g \in hits : \A h \in hits : g <= h].canonical]

LinkAliases(ents, aliases) == [i \in 1..Len(ents) |-> LinkOne(ents[i], aliases)]

\* the loop is over: de-duplicate, link, return
SecondPassReturn ==
  /\ scan.stage = "pass2"
  /\ scan.i > Len(scan.segments)
  /\ scan' = [scan EXCEPT
                !.stage = "returned",
                !.unique_entities =
                   LinkAliases(Dedupe(scan.all_entities, Len(scan.all_entities)),
                               scan.aliases)]
  /\ UNCHANGED <<session, input_vars, pc, run, first_run, anon_vars, mapping, given_text, edits,
                 restore_vars>>

(***************************************************************************)
(* _split_into_segments(text, max_chars)                                   *)
(***************************************************************************)
\* text.split("\n")
RECURSIVE SplitLines(_)
SplitLines(s) ==
  LET i == Find(s, <<"\n">>, 0)
  IN  IF i = -1 THEN <<s>> ELSE <<Slice(s, 0, i)>> \o SplitLines(SliceFrom(s, i + 1))

\* the sentence-ending characters of the pattern that the texts of the model
\* can hold (the pattern also lists their full-width forms)
SentenceEnd == {".", "!", "?"}

\* the number of whitespace characters from offset i on
WhiteRun(p, i) == Len(SliceFrom(p, i)) - Len(LStrip(SliceFrom(p, i)))

\* re.split(r"(?<=[.!?])\s*", p): the pattern matches at every offset i that
\* follows a sentence end and takes the whitespace from there on; start is
\* the end of the last match
RECURSIVE SentencesFrom(_, _, _)
SentencesFrom(p, start, i) ==
  IF i > Len(p) THEN <<SliceFrom(p, start)>>
  ELSE IF p[i] \in SentenceEnd
       THEN <<Slice(p, start, i)>> \o SentencesFrom(p, i + WhiteRun(p, i), i + 1)
       ELSE SentencesFrom(p, start, i + 1)

Sentences(p) == SentencesFrom(p, 0, 1)

\* the loop over the sentences of a long paragraph, after the first n
RECURSIVE SentenceLoop(_, _, _)
SentenceLoop(sentences, n, max_chars) ==
  IF n = 0 THEN [segments |-> <<>>, temp |-> <<>>]
  ELSE LET prev  == SentenceLoop(sentences, n - 1, max_chars)
           flush == Len(prev.temp) + Len(sentences[n]) > max_chars /\ prev.temp # <<>>
       IN  [segments |-> IF flush THEN Append(prev.segments, Strip(prev.temp))
                         ELSE prev.segments,
            temp |-> (IF flush THEN <<>> ELSE prev.temp) \o sentences[n]]

\* a paragraph longer than max_chars: close the current segment, then cut the
\* paragraph by sentence
LongParagraph(st, paragraph, max_chars) ==
  LET closed == IF Strip(st.current_segment) # <<>>
                THEN [segments |-> Append(st.segments, Strip(st.current_segment)),
                      current_segment |-> <<>>]
                ELSE st
      sl     == SentenceLoop(Sentences(paragraph), Len(Sentences(paragraph)), max_chars)
  IN  [segments |-> closed.segments \o sl.segments
                      \o (IF Strip(sl.temp) # <<>> THEN <<Strip(sl.temp)>> ELSE <<>>),
       current_segment |-> closed.current_segment]

\* any other paragraph joins the current segment, which is closed first when
\* it would grow past max_chars
ShortParagraph(st, paragraph, max_chars) ==
  LET flush == /\ Len(st.current_segment) + Len(paragraph) + 1 > max_chars
               /\ Strip(st.current_segment) # <<>>
  IN  [segments |-> IF flush THEN Append(st.segments, Strip(st.current_segment))
                    ELSE st.segments,
       current_segment |-> (IF flush THEN <<>> ELSE st.current_segment)
                             \o paragraph \o <<"\n">>]

\* the loop over the paragraphs, after the first n
RECURSIVE ParagraphLoop(_, _, _)
ParagraphLoop(paragraphs, n, max_chars) ==
  IF n = 0 THEN [segments |-> <<>>, current_segment |-> <<>>]
  ELSE LET prev == ParagraphLoop(paragraphs, n - 1, max_chars)
       IN  IF Len(paragraphs[n]) > max_chars
           THEN LongParagraph(prev, paragraphs[n], max_chars)
           ELSE ShortParagraph(prev, paragraphs[n], max_chars)

SplitIntoSegments(text, max_chars) ==
  LET st == ParagraphLoop(SplitLines(text), Len(SplitLines(text)), max_chars)
  IN  st.segments \o (IF Strip(st.current_segment) # <<>>
                      THEN <<Strip(st.current_segment)>> ELSE <<>>)

\* a call of _split_into_segments
SplitSegments ==
  /\ scan.stage = "split"
  /\ \E max_chars \in 1..MaxSegmentChars :
       scan' = [scan EXCEPT !.stage = "segmented",
                            !.max_chars = max_chars,
                            !.segments = SplitIntoSegments(source_text, max_chars)]
  /\ UNCHANGED <<session, input_vars, pc, run, first_run, anon_vars, mapping, given_text, edits,
                 restore_vars>>

(***************************************************************************)
(* The anonymize page: render(), run once for every event of the page.     *)
(***************************************************************************)
LowerChar(c) ==
  IF \E i \in 1..26 : UpperLetters[i] = c
  THEN LowerLetters[CHOOSE i \in 1..26 : UpperLetters[i] = c]
  ELSE c

\* str.lower()
Lower(s) == [i \in 1..Len(s) |-> LowerChar(s[i])]

\* name.rsplit(".", 1)[-1].lower()
FileExt(name) ==
  LET dots == {i \in 1..Len(name) : name[i] = "."}
      last == IF dots = {} THEN 0 ELSE CHOOSE i \in dots : \A j \in dots : j <= i
  IN  Lower(SubSeq(name, last + 1, Len(name)))

\* the files offered to the uploader: a file is its name, its content (a
\* number) and whether read_uploaded_file can extract text from it; two
\* files share a name, one cannot be read
PageFiles ==
  { [name |-> <<"a",".","t","x","t">>, bytes |-> 1, readable |-> TRUE],
    [name |-> <<"a",".","t","x","t">>, bytes |-> 2, readable |-> TRUE],
    [name |-> <<"b",".","d","o","c","x">>, bytes |-> 3, readable |-> TRUE],
    [name |-> <<"c",".","D","O","C">>, bytes |-> 4, readable |-> TRUE],
    [name |-> <<"d",".","d","o","c","x">>, bytes |-> 5, readable |-> FALSE] }

\* python-docx and textutil open the stored bytes as they opened the upload
Opens(bytes) == \E f \in PageFiles : f.bytes = bytes /\ f.readable

\* the upload block: a file whose name is not the stored one is taken over,
\* bytes and extension first, then the text, which read_uploaded_file may
\* fail to extract, then the name and the reset of every result
UploadBlock(s) ==
  LET f == s.uploaded_file
  IN  IF f = NoFile \/ s.uploaded_filename = f.name
      THEN [session |-> s, raised |-> FALSE]
      ELSE LET stored == [s EXCEPT !.uploaded_bytes = f.bytes,
                                   !.uploaded_ext = FileExt(f.name)]
           IN  IF ~f.readable
               THEN [session |-> stored, raised |-> TRUE]
               ELSE [session |->
                       [stored EXCEPT !.uploaded_text = f.bytes,
                                      !.uploaded_filename = f.name,
                                      !.pass1_result = NoResult,
                                      !.pass1_confirmed = FALSE,
                                      !.pass2_result = NoResult,
                                      !.pass2_confirmed = FALSE,
                                      !.anonymized_text = 0,
                                      !.anonymized_file_bytes = 0,
                                      !.mapping_data = 0],
                     raised |-> FALSE]

\* what render shows below the upload block: the step the early returns
\* stop at
Shown(s) ==
  IF s.uploaded_text = 0 THEN "upload"
  ELSE IF s.pass1_result = NoResult THEN "pass1"
  ELSE IF ~s.pass1_confirmed THEN "review1"
  ELSE IF s.pass2_result = NoResult THEN "pass2"
  ELSE IF ~s.pass2_confirmed THEN "review2"
  ELSE IF s.anonymized_text = 0 THEN "execute"
  ELSE "results"

\* step 4, run by render itself once both reviews are confirmed: the text
\* and the mapping, then the same-format file, whose conversion may fail
\* and always fails on bytes that cannot be read
ExecuteStep(s, converts) ==
  LET replaced == [s EXCEPT !.anonymized_text = s.uploaded_text,
                            !.mapping_data = s.uploaded_text]
  IN  IF /\ s.uploaded_ext \in {<<"d","o","c","x">>, <<"d","o","c">>}
         /\ converts
         /\ Opens(s.uploaded_bytes)
      THEN [replaced EXCEPT !.anonymized_file_bytes = s.uploaded_bytes]
      ELSE replaced

\* one run of render without a click
Render(s, converts) ==
  LET u == UploadBlock(s)
  IN  IF u.raised \/ Shown(u.session) # "execute"
      THEN u.session
      ELSE ExecuteStep(u.session, converts)

\* a button is on the page when the upload block passes and the early
\* returns stop at its step
Offered(step) ==
  /\ ~UploadBlock(session).raised
  /\ Shown(UploadBlock(session).session) = step

\* the user puts a file into the uploader, or another one in its place
ChooseFile ==
  /\ \E f \in PageFiles \ {session.uploaded_file}, converts \in BOOLEAN :
       session' = Render([session EXCEPT !.uploaded_file = f], converts)
  /\ UNCHANGED <<input_vars, pc, run, first_run, anon_vars, mapping, given_text, edits,
                 restore_vars, scan>>

\* the user takes the file out of the uploader
ClearFile ==
  /\ session.uploaded_file # NoFile
  /\ \E converts \in BOOLEAN :
       session' = Render([session EXCEPT !.uploaded_file = NoFile], converts)
  /\ UNCHANGED <<input_vars, pc, run, first_run, anon_vars, mapping, given_text, edits,
                 restore_vars, scan>>

\* "Start Pass 1 Scan": run_first_pass on the stored text; an exception shows an
\* error and stores nothing
StartPass1 ==
  /\ Offered("pass1")
  /\ \E ok \in BOOLEAN, converts \in BOOLEAN :
       session' =
         IF ok
         THEN Render([session EXCEPT
                        !.pass1_result = [of |-> session.uploaded_text,
                                          reviewed |-> FALSE]], converts)
         ELSE session
  /\ UNCHANGED <<input_vars, pc, run, first_run, anon_vars, mapping, given_text, edits,
                 restore_vars, scan>>

\* "Confirm entities, proceed to Pass 2": the edited alias rows replace the aliases
ConfirmPass1 ==
  /\ Offered("review1")
  /\ \E converts \in BOOLEAN :
       session' = Render([session EXCEPT !.pass1_result.reviewed = TRUE,
                                         !.pass1_confirmed = TRUE], converts)
  /\ UNCHANGED <<input_vars, pc, run, first_run, anon_vars, mapping, given_text, edits,
                 restore_vars, scan>>

\* "Start Pass 2 Scan": run_second_pass on the stored text and pass 1's result
StartPass2 ==
  /\ Offered("pass2")
  /\ \E ok \in BOOLEAN, converts \in BOOLEAN :
       session' =
         IF ok
         THEN Render([session EXCEPT
                        !.pass2_result = [of |-> session.uploaded_text,
                                          reviewed |-> FALSE]], converts)
         ELSE session
  /\ UNCHANGED <<input_vars, pc, run, first_run, anon_vars, mapping, given_text, edits,
                 restore_vars, scan>>

\* "Confirm entities, execute anonymization": the edited rows replace the result
\* and the rerun goes on to step 4
ConfirmPass2 ==
  /\ Offered("review2")
  /\ \E converts \in BOOLEAN :
       session' = Render([session EXCEPT !.pass2_result.reviewed = TRUE,
                                         !.pass2_confirmed = TRUE], converts)
  /\ UNCHANGED <<input_vars, pc, run, first_run, anon_vars, mapping, given_text, edits,
                 restore_vars, scan>>

(***************************************************************************)
(* Specifications.                                                         *)
(***************************************************************************)
Anonymize == AssignPlaceholders \/ ReplaceOccurrence \/ NextLiteral \/ AssembleMapping

\* anonymize (once, or twice on the same inputs), then restore the untouched text
Next == Anonymize \/ Rerun \/ RestoreByPosition \/ RestoreByContext \/ RestoreByCanonical

Spec == Init /\ [][Next]_vars

\* anonymize, let the text be edited, then restore it step by step
StepInputs ==
  { [text |-> <<"a">>, entities |-> <<Mention(<<"a">>, <<"p">>, <<>>)>>, aliases |-> <<>>],
    [text |-> <<"a","a">>, entities |-> <<Mention(<<"a">>, <<"p">>, <<>>)>>,
     aliases |-> <<>>],
    [text |-> <<"a","P">>,
     entities |-> <<Mention(<<"a">>, <<"p">>, <<>>), Mention(<<"P">>, <<"P">>, <<>>)>>,
     aliases |-> <<>>],
    [text |-> <<"a","P">>,
     entities |-> <<Mention(<<"a">>, <<"q">>, <<"P"," ">>)>>,
     aliases |-> <<>>],
    [text |-> <<"P","a","a">>,
     entities |-> <<Mention(<<"a">>, <<"p">>, <<>>)>>,
     aliases |-> <<AliasGroup(<<"a">>, <<<<"a","a">>>>)>>],
    [text |-> <<"a","{","P","_","2","}">>,
     entities |-> <<Mention(<<"a">>, <<"p">>, <<>>)>>, aliases |-> <<>>],
    [text |-> <<"P">>,
     entities |-> <<Mention(<<"a">>, <<"p">>, <<>>)>>,
     aliases |-> <<AliasGroup(<<"a">>, <<<<>>>>)>>] }

InitSteps ==
  /\ \E i \in StepInputs :
       /\ source_text = i.text
       /\ entities = i.entities
       /\ pass1_aliases = i.aliases
  /\ Fresh
  /\ scan = NoScan

NextSteps ==
  \/ Anonymize
  \/ ExternalEdit
  \/ StartDeanonymize \/ PositionStep \/ StartContext \/ ContextStep
  \/ StartCanonical \/ CanonicalStep \/ Finish

SpecSteps == InitSteps /\ [][NextSteps]_vars

\* Documents longer than the window of step A: a type name longer than the
\* window moves a later token to the right of its recorded position by more
\* than the window; a literal that follows more than a window of text has
\* the window start above 0.
LongType == [i \in 1..(PositionWindow + 10) |-> "t"]
DistinctChars == LowerLetters \o UpperLetters \o SubSeq(DigitChars, 1, 8)

WindowInputs ==
  { [text |-> <<"a","P","P">>,
     entities |-> <<Mention(<<"a">>, LongType, <<>>), Mention(<<"P","P">>, <<"q">>, <<>>)>>,
     aliases |-> <<>>],
    [text |-> DistinctChars \o <<"9">>,
     entities |-> <<Mention(<<"9">>, <<"p">>, <<>>)>>,
     aliases |-> <<>>] }

\* A document that holds two tokens of its own besides two literals of one
\* group: step A leaves two tokens to step B, and for one of them two log
\* records of different original_text have the same, maximal score.
TieInputs ==
  { [text |-> <<"b","x","{","P","_","1","}","{","P","_","1","}","c","b","x">>,
     entities |-> <<Mention(<<"b">>, <<"p">>, <<>>), Mention(<<"c">>, <<"p">>, <<"b">>)>>,
     aliases |-> <<>>] }

\* A document with one literal, two tokens of the literal's id and a token of
\* an id the artifact does not have: each of the steps A, B and C restores
\* one token and one is left.
CountInputs ==
  { [text |-> <<"{","P","_","1","}","b","{","P","_","1","}","{","Q","_","1","}">>,
     entities |-> <<Mention(<<"b">>, <<"p">>, <<>>)>>,
     aliases |-> <<>>] }

\* A document with a literal longer than its token and two tokens of the
\* literal's id: step C replaces two tokens by a text longer than a token.
LongerInputs ==
  { [text |-> <<"b","b","b","b","b","b","b","{","P","_","1","}","{","P","_","1","}">>,
     entities |-> <<Mention(<<"b","b","b","b","b","b","b">>, <<"p">>, <<>>)>>,
     aliases |-> <<>>] }

\* anonymize, then restore the text as it was returned, step by step
InitUnedited ==
  /\ \E i \in StepInputs \cup WindowInputs \cup TieInputs \cup CountInputs
               \cup LongerInputs :
       /\ source_text = i.text
       /\ entities = i.entities
       /\ pass1_aliases = i.aliases
  /\ Fresh
  /\ scan = NoScan

NextUnedited ==
  \/ Anonymize
  \/ StartDeanonymize \/ PositionStep \/ StartContext \/ ContextStep
  \/ StartCanonical \/ CanonicalStep \/ Finish

SpecUnedited == InitUnedited /\ [][NextUnedited]_vars

\* the two extraction passes over a document of up to MaxSegments segments
InitExtract ==
  /\ source_text = <<>>
  /\ entities = <<>>
  /\ pass1_aliases = <<>>
  /\ Fresh
  /\ \E segs \in SegmentLists : scan = [NoScan EXCEPT !.stage = "pass1", !.segments = segs]

NextExtract == FirstPass \/ ScanSegment \/ SecondPassReturn

SpecExtract == InitExtract /\ [][NextExtract]_vars

\* _split_into_segments on texts of up to MaxSplitLen characters
SplitChars == {"a", ".", " ", "\n"}

InitSplit ==
  /\ source_text \in StringsUpTo(SplitChars, MaxSplitLen)
  /\ entities = <<>>
  /\ pass1_aliases = <<>>
  /\ Fresh
  /\ scan = [NoScan EXCEPT !.stage = "split"]

NextSplit == SplitSegments

SpecSplit == InitSplit /\ [][NextSplit]_vars

\* the anonymize page, from a new session
InitPage ==
  /\ source_text = <<>>
  /\ entities = <<>>
  /\ pass1_aliases = <<>>
  /\ Fresh
  /\ scan = NoScan

NextPage ==
  ChooseFile \/ ClearFile \/ StartPass1 \/ ConfirmPass1 \/ StartPass2 \/ ConfirmPass2

SpecPage == InitPage /\ [][NextPage]_vars

(***************************************************************************)
(* Properties.                                                             *)
(***************************************************************************)
\* execute_replacement has assigned the placeholders of the current run
Assigned == pc # "start"

\* execute_replacement has returned
Returned == pc \notin {"start", "replace"}

\* run_deanonymize has returned, and the text it was given was not edited
RestoredUntouched == pc = "done" /\ edits = 0

HasGrammarText(t) == FindIter(t) # <<>>

\* C1: round trip.  For a document without placeholder-grammar text, restoring
\* the unedited anonymized text gives the document back, with
\* position_matched = total_in_log and remaining_placeholders = 0.
C1_RoundTrip ==
  (RestoredUntouched /\ ~HasGrammarText(source_text)) =>
    /\ running.text = source_text
    /\ stats.position_matched = stats.total_in_log
    /\ stats.remaining_placeholders = 0

\* the characters of anonymized_text that log record k inserted
SpanOf(k) == {i \in 1..Len(inserted) : inserted[i] = k}
Lo(S) == CHOOSE i \in S : \A j \in S : i <= j
Hi(S) == CHOOSE i \in S : \A j \in S : j <= i
Inside(j, k) ==
  /\ j # k
  /\ SpanOf(j) # {}
  /\ SpanOf(k) # {}
  /\ Lo(SpanOf(k)) <= Lo(SpanOf(j))
  /\ Hi(SpanOf(j)) <= Hi(SpanOf(k))

LiteralLeft == \E i \in 1..Len(text_to_placeholder) :
                 Contains(anonymized_text, text_to_placeholder[i].k)
TokenInsideToken == \E j, k \in 1..Len(replacement_log) : Inside(j, k)

\* C2: non-overlap.  In the text execute_replacement returns, no inserted
\* token lies inside the span of another inserted token, and no key of the
\* literal map occurs verbatim.
C2_NonOverlap ==
  (Returned /\ ~HasGrammarText(source_text)) => (~TokenInsideToken /\ ~LiteralLeft)

\* C3: determinism.  A second run of execute_replacement on the same inputs
\* returns the same placeholder ids, the same replacement_log and the same text.
C3_Determinism ==
  (run = 2 /\ pc = "anonymized") =>
    /\ DictKeys(mapping.mappings) = DictKeys(first_run.mapping.mappings)
    /\ mapping.replacement_log = first_run.mapping.replacement_log
    /\ anonymized_text = first_run.text

\* the tags of the characters of a token of the given text
TagsOf(m) == [i \in 1..Len(m.token) |-> m.start + i]
StepRank(step) == CASE step = "A" -> 1 [] step = "B" -> 2 [] step = "C" -> 3
Resolutions(m) == {i \in 1..Len(running.resolved) : running.resolved[i].tags = TagsOf(m)}
RestoredStringsClean ==
  /\ \A i \in 1..Len(mapping.replacement_log) :
       ~HasGrammarText(mapping.replacement_log[i].original_text)
  /\ \A i \in 1..Len(mapping.mappings) : ~HasGrammarText(mapping.mappings[i].v.value)

\* C4: the tiers act in the order A, B, C, and each token of the text given to
\* run_deanonymize is replaced by at most one of them.
C4_OneTierPerToken ==
  (pc \in {"position", "context", "canonical", "done"} /\ RestoredStringsClean) =>
    /\ \A i, j \in 1..Len(running.resolved) :
         i < j => StepRank(running.resolved[i].step) <= StepRank(running.resolved[j].step)
    /\ \A t \in 1..Len(Tokens(given_text)) :
         Cardinality(Resolutions(Tokens(given_text)[t])) <= 1
    /\ (pc = "position" => \A i \in 1..Len(running.resolved) :
                             running.resolved[i].step = "A")
    /\ (pc = "context" => \A i \in 1..Len(running.resolved) :
                            running.resolved[i].step \in {"A", "B"})

ResolvedBy(step) ==
  \E t \in 1..Len(Tokens(given_text)) :
    \E i \in Resolutions(Tokens(given_text)[t]) : running.resolved[i].step = step

\* an edited text of which step A restored one token and step C another
C4_Witness ==
  /\ pc = "done"
  /\ edits > 0
  /\ RestoredStringsClean
  /\ ResolvedBy("A")
  /\ ResolvedBy("C")

\* the score step B computes for the token it is about to process
ScoreNow == BestFor(running.text, matches[idx], mapping.replacement_log)
AtMostHalf(score) == 2 * score.n <= score.d
ExactlyHalf(score) == 2 * score.n = score.d

\* C5: step B replaces a token only when its best score is strictly above
\* 0.5; at 0.5 or below the text and context_matched stay as they are.
C5_StrictThreshold ==
  [][(pc = "context" /\ idx >= 1) =>
       /\ AtMostHalf(ScoreNow.score) =>
            /\ running'.text = running.text
            /\ running'.context_matched = running.context_matched
       /\ ~AtMostHalf(ScoreNow.score) =>
            /\ running'.context_matched = running.context_matched + 1
            /\ running'.text = Splice(running.text, matches[idx].start,
                                      Len(matches[idx].token),
                                      mapping.replacement_log[ScoreNow.entry].original_text)]_vars

\* a token with a candidate whose score was exactly 0.5 has just been left in place
C5_Witness ==
  /\ pc = "context"
  /\ idx < Len(matches)
  /\ LET m    == matches[idx + 1]
         best == BestFor(running.text, m, mapping.replacement_log)
     IN  /\ Slice(running.text, m.start, m.start + Len(m.token)) = m.token
         /\ best.entry # 0
         /\ ExactlyHalf(best.score)
         /\ running.context_matched = 0

IsScenario ==
  /\ source_text = ScenarioText
  /\ entities = ScenarioEntities
  /\ pass1_aliases = <<>>

Person1 == <<"{","P","E","R","S","O","N","_","1","}">>
Email1 == <<"{","E","M","A","I","L","_","1","}">>
ScenarioAnonymized ==
  Person1 \o <<" ","s","i","g","n","e","d","."," ","C","o","n","t","a","c","t",":"," ">>
    \o Person1 \o <<" ","a","t"," ">> \o Email1 \o <<".">>

\* C6: the scenario.  Both "John Smith" become {PERSON_1}, the e-mail address
\* {EMAIL_1}, the log has 3 records, and the untouched text restores to the
\* document with position_matched = 3 and remaining_placeholders = 0.
C6_Scenario ==
  IsScenario =>
    /\ Returned =>
         /\ anonymized_text = ScenarioAnonymized
         /\ Len(mapping.replacement_log) = 3
         /\ \A i \in 1..3 :
              LET rec == mapping.replacement_log[i]
              IN  \/ rec.original_text = ScenarioEntities[1].text /\ rec.placeholder = Person1
                  \/ rec.original_text = ScenarioEntities[2].text /\ rec.placeholder = Email1
         /\ DictKeys(mapping.mappings) = <<Person1, Email1>>
    /\ RestoredUntouched =>
         /\ running.text = ScenarioText
         /\ stats.position_matched = 3
         /\ stats.remaining_placeholders = 0

C6_Witness == IsScenario /\ RestoredUntouched /\ Len(mapping.replacement_log) = 3

\* C7: one placeholder id per canonical group: the mappings table has one
\* entry per group, entry i holding the key of group i.
C7_UniqueIds ==
  Assigned =>
    /\ Len(placeholder_map) = Len(canonical_groups)
    /\ \A i \in 1..Len(placeholder_map) :
         i <= Len(canonical_groups) => placeholder_map[i].v.value = canonical_groups[i].k

\* two groups whose types differ only in letter case
C7_Witness ==
  /\ Assigned
  /\ \E i, j \in 1..Len(canonical_groups) :
       /\ canonical_groups[i].v.type # canonical_groups[j].v.type
       /\ Upper(canonical_groups[i].v.type) = Upper(canonical_groups[j].v.type)
       /\ placeholder_map[i].k # placeholder_map[j].k

\* the mentions that are not dropped, and for a key the first of them
Kept(i) == Strip(entities[i].text) # <<>>
FirstMention(key) ==
  LET S == {i \in 1..Len(entities) : Kept(i) /\ GroupKey(entities[i]) = key}
  IN  CHOOSE i \in S : \A j \in S : i <= j
KeptKeys == {GroupKey(entities[i]) : i \in {j \in 1..Len(entities) : Kept(j)}}
OrdinalOf(i) ==
  1 + Cardinality({j \in 1..(i - 1) :
        Upper(entities[FirstMention(canonical_groups[j].k)].type)
          = Upper(entities[FirstMention(canonical_groups[i].k)].type)})

\* C8: groups are numbered in first-seen order of their key; per upper-cased
\* type the ordinals are 1, 2, ... without gaps; a group has the type of the
\* first mention that created it.
C8_Ordinals ==
  Assigned =>
    /\ {canonical_groups[i].k : i \in 1..Len(canonical_groups)} = KeptKeys
    /\ Len(canonical_groups) = Cardinality(KeptKeys)
    /\ \A i, j \in 1..Len(canonical_groups) :
         i < j => FirstMention(canonical_groups[i].k) < FirstMention(canonical_groups[j].k)
    /\ \A i \in 1..Len(canonical_groups) :
         LET first == entities[FirstMention(canonical_groups[i].k)]
             id    == <<"{">> \o Upper(first.type) \o <<"_">> \o DecStr(OrdinalOf(i)) \o <<"}">>
         IN  /\ canonical_groups[i].v.type = first.type
             /\ HasKey(placeholder_map, id)
             /\ DictGet(placeholder_map, id).value = canonical_groups[i].k
             /\ DictGet(placeholder_map, id).type = first.type

\* a second group of a type has been given ordinal 2
C8_Witness ==
  /\ Assigned
  /\ Len(canonical_groups) = 2
  /\ OrdinalOf(2) = 2
  /\ HasKey(placeholder_map,
            PlaceholderId(Upper(canonical_groups[2].v.type), 2))

\* the id of group i, and the last group that holds the literal t
IdOfGroup(i) == placeholder_map[i].k
LastGroupWith(t) ==
  LET S == {i \in 1..Len(canonical_groups) : t \in canonical_groups[i].v.texts}
  IN  CHOOSE i \in S : \A j \in S : j <= i
Literals == UNION {canonical_groups[i].v.texts : i \in 1..Len(canonical_groups)}

\* C9: the literal map has one id per literal; a literal that is a member of
\* two groups maps to the id of the later group, and every replacement of
\* that literal is logged with that id only.
C9_LastWriteWins ==
  Assigned =>
    /\ RangeOf(DictKeys(text_to_placeholder)) = Literals
    /\ Len(text_to_placeholder) = Cardinality(Literals)
    /\ \A t \in Literals : DictGet(text_to_placeholder, t) = IdOfGroup(LastGroupWith(t))
    /\ \A i \in 1..Len(replacement_log) :
         replacement_log[i].placeholder
           = IdOfGroup(LastGroupWith(replacement_log[i].original_text))

C9_Witness ==
  /\ Returned
  /\ \E i \in 1..Len(replacement_log) :
       \E g, h \in 1..Len(canonical_groups) :
         /\ g < h
         /\ replacement_log[i].original_text \in canonical_groups[g].v.texts
         /\ replacement_log[i].original_text \in canonical_groups[h].v.texts
         /\ replacement_log[i].placeholder = IdOfGroup(h)
         /\ IdOfGroup(g) # IdOfGroup(h)

\* C10: after placeholder assignment every key of the literal map has a
\* character that is not whitespace.
C10_NoBlankLiteral ==
  Assigned =>
    \A i \in 1..Len(text_to_placeholder) : Strip(text_to_placeholder[i].k) # <<>>

\* the matches of step C's scan whose id is, or is not, a key of mappings
KnownMatches == {i \in 1..Len(matches) : HasKey(mapping.mappings, matches[i].token)}
ForeignMatches == {i \in 1..Len(matches) : ~HasKey(mapping.mappings, matches[i].token)}
Occurrences(toks, tok) == Cardinality({i \in 1..Len(toks) : toks[i].token = tok})

\* C11: step C replaces a remaining token whose id is a key of mappings by the
\* entry's value and counts it in fallback_count; a token whose id is not a
\* key stays in the text, is not counted in fallback_count, and is counted in
\* remaining_placeholders.
C11_CanonicalFallback ==
  /\ [][(pc = "canonical" /\ idx >= 1) =>
          IF HasKey(mapping.mappings, matches[idx].token)
          THEN /\ running'.text = Splice(running.text, matches[idx].start,
                                         Len(matches[idx].token),
                                         DictGet(mapping.mappings, matches[idx].token).value)
               /\ running'.fallback_count = running.fallback_count + 1
          ELSE /\ running'.text = running.text
               /\ running'.fallback_count = running.fallback_count]_vars
  /\ [](pc = "done" =>
          /\ stats.fallback_count = Cardinality(KnownMatches)
          /\ stats.remaining_placeholders >= Cardinality(ForeignMatches)
          /\ \A i \in ForeignMatches :
               Occurrences(Tokens(running.text), matches[i].token)
                 >= Cardinality({j \in ForeignMatches : matches[j].token = matches[i].token}))

\* step C has replaced one token by its canonical value and left another, whose
\* id is not in mappings, in the text
C11_Witness ==
  /\ pc = "done"
  /\ KnownMatches # {}
  /\ ForeignMatches # {}
  /\ stats.fallback_count = 1
  /\ stats.remaining_placeholders = 1

\* run_deanonymize has been called and may have returned
Restoring == pc \in {"position", "context", "canonical", "position_done",
                     "context_done", "done"}

\* C12: during and after run_deanonymize the artifact is what
\* execute_replacement returned: the same log records in the same order and
\* the same mappings table.
C12_ArtifactUnchanged ==
  Restoring =>
    /\ mapping.replacement_log = replacement_log
    /\ mapping.mappings = placeholder_map
    /\ mapping.metadata.entity_count = Len(canonical_groups)

\* run_deanonymize has returned a changed text for a log that is not in
\* descending order of position
C12_Witness ==
  /\ pc = "done"
  /\ Len(mapping.replacement_log) >= 2
  /\ sorted_log # mapping.replacement_log
  /\ running.text # given_text
  /\ stats.position_matched >= 1

\* run_deanonymize has been called and has not returned
InCall == pc \in {"position", "context", "canonical"}

\* the statements run_deanonymize has still to go through: the step it is in,
\* and the iterations left of that step's loop
StageOf(p) == CASE p = "position" -> 3 [] p = "context" -> 2 [] p = "canonical" -> 1
                [] OTHER -> 0
LeftOf(p, i, slog) == CASE p = "position" -> Len(slog) + 1 - i
                        [] p \in {"context", "canonical"} -> i
                        [] OTHER -> 0

\* C13: whatever the text given, run_deanonymize has a next statement to
\* execute until it returns, every statement brings the return nearer, there
\* is no way out of the call but the return, and what went unmatched or
\* unresolved shows only in the counts returned.
C13_SoftFailures ==
  /\ [](pc \in {"start", "replace", "anonymized", "position", "context", "canonical",
               "done"})
  /\ [](pc = "position" => idx \in 1..(Len(sorted_log) + 1))
  /\ [](pc \in {"context", "canonical"} => idx \in 0..Len(matches))
  /\ [][InCall =>
          \/ StageOf(pc') < StageOf(pc)
          \/ /\ StageOf(pc') = StageOf(pc)
             /\ LeftOf(pc', idx', sorted_log') < LeftOf(pc, idx, sorted_log)]_vars
  /\ [](pc = "done" =>
          /\ stats = Stats(running, mapping)
          /\ stats.position_matched + running.position_unmatched = stats.total_in_log
          /\ stats.context_matched >= 0
          /\ stats.fallback_count >= 0
          /\ stats.remaining_placeholders = Len(Tokens(running.text)))

\* run_deanonymize has returned from an edited text with a log record that
\* found no token and a token that nothing resolved
C13_Witness ==
  /\ pc = "done"
  /\ edits > 0
  /\ running.position_unmatched >= 1
  /\ stats.remaining_placeholders >= 1

\* C14: when a call to the extraction collaborator has failed, in pass 1 or
\* for a segment of pass 2, no entity list is returned.
C14_HardFailure == scan.failed > 0 => scan.stage # "returned"

\* the part of the running text the current literal's scan has not passed
Unscanned == Len(anonymized_text) - search_start

\* C15: substitution and restoration terminate.  In the substitution loop
\* every statement takes the next literal or, within a literal's scan, moves
\* the cursor forward and shrinks the unscanned suffix; in run_deanonymize
\* every statement brings the return nearer.
C15_Terminates ==
  /\ [][(pc = "replace" /\ pc' = "replace") =>
          \/ lit' > lit
          \/ /\ lit' = lit
             /\ search_start' > search_start
             /\ Len(anonymized_text') - search_start' < Unscanned]_vars
  /\ [][InCall =>
          \/ StageOf(pc') < StageOf(pc)
          \/ /\ StageOf(pc') = StageOf(pc)
             /\ LeftOf(pc', idx', sorted_log') < LeftOf(pc, idx, sorted_log)]_vars

\* C16: metadata.entity_count is the number of canonical groups built from
\* the entity list, which is the number of entries of mappings, whatever the
\* number of replacements logged.
C16_EntityCount ==
  Returned =>
    /\ mapping.metadata.entity_count = Cardinality(KeptKeys)
    /\ mapping.metadata.entity_count = Len(canonical_groups)
    /\ mapping.metadata.entity_count = Len(mapping.mappings)

\* an artifact of two groups with another number of replacements and of literals
C16_Witness ==
  /\ Returned
  /\ mapping.metadata.entity_count = 2
  /\ Len(mapping.replacement_log) # 2
  /\ LiteralCount(canonical_groups) # 2

\* C17: the literals are processed in non-increasing order of length, literals
\* of equal length in the order of their first insertion into the literal
\* map; the log never has a record of a shorter literal before one of a
\* longer literal.
C17_LongestFirst ==
  Assigned =>
    /\ Len(sorted_texts) = Len(text_to_placeholder)
    /\ RangeOf(sorted_texts) = RangeOf(DictKeys(text_to_placeholder))
    /\ \A i, j \in 1..Len(sorted_texts) :
         i < j =>
           /\ Len(sorted_texts[i]) >= Len(sorted_texts[j])
           /\ Len(sorted_texts[i]) = Len(sorted_texts[j]) =>
                KeyIndex(text_to_placeholder, sorted_texts[i])
                  < KeyIndex(text_to_placeholder, sorted_texts[j])
    /\ \A a, b \in 1..Len(replacement_log) :
         a < b => Len(replacement_log[a].original_text)
                    >= Len(replacement_log[b].original_text)
    /\ \A a \in 1..Len(replacement_log) :
         lit <= Len(sorted_texts) =>
           Len(replacement_log[a].original_text) >= Len(sorted_texts[lit])

\* two literals of one length after a longer one, with replacements of both lengths
C17_Witness ==
  /\ Returned
  /\ \E i, j \in 1..Len(sorted_texts) :
       /\ i < j
       /\ Len(sorted_texts[i]) = Len(sorted_texts[j])
       /\ Len(sorted_texts[1]) > Len(sorted_texts[i])
  /\ \E a, b \in 1..Len(replacement_log) :
       Len(replacement_log[a].original_text) > Len(replacement_log[b].original_text)

\* a record is being appended to the log
Appending == pc = "replace" /\ Len(replacement_log') = Len(replacement_log) + 1

\* C18: when a record is appended, the running text before this substitution
\* holds original_text at position, context_before is its up to 40
\* characters before position and context_after its up to 40 characters
\* after the literal.
C18_Provenance ==
  [][Appending =>
       LET rec  == replacement_log'[Len(replacement_log')]
           stop == rec.position + Len(rec.original_text)
       IN  /\ rec.position >= 0
           /\ stop <= Len(anonymized_text)
           /\ \A i \in 1..Len(rec.original_text) :
                anonymized_text[rec.position + i] = rec.original_text[i]
           /\ Len(rec.context_before) = Min(ContextChars, rec.position)
           /\ \A i \in 1..Len(rec.context_before) :
                rec.context_before[i]
                  = anonymized_text[rec.position - Len(rec.context_before) + i]
           /\ Len(rec.context_after) = Min(ContextChars, Len(anonymized_text) - stop)
           /\ \A i \in 1..Len(rec.context_after) :
                rec.context_after[i] = anonymized_text[stop + i]]_vars

\* a record whose context_before is 40 characters long and holds a token
\* inserted earlier, so is not a stretch of the document as given
C18_Witness ==
  /\ pc = "replace"
  /\ \E k \in 1..Len(replacement_log) :
       /\ Len(replacement_log[k].context_before) = ContextChars
       /\ replacement_log[k].position > ContextChars
       /\ Contains(replacement_log[k].context_before, <<"{">>)
       /\ ~Contains(source_text, replacement_log[k].context_before)

\* C19: a substitution never matches characters of a token inserted earlier,
\* and every inserted token is whole in the text execute_replacement returns.
C19_NeverRescanned ==
  /\ [][Appending =>
          LET rec == replacement_log'[Len(replacement_log')]
          IN  \A i \in 1..Len(rec.original_text) : inserted[rec.position + i] = 0]_vars
  /\ [](Returned =>
          \A k \in 1..Len(replacement_log) :
            Cardinality(SpanOf(k)) = Len(replacement_log[k].placeholder))

\* the place of a record's literal in the processing order
LiteralRank(rec) ==
  CHOOSE i \in 1..Len(sorted_texts) : sorted_texts[i] = rec.original_text

\* C20: during substitution the log changes only by appends; its records are
\* grouped by literal in processing order, the positions within a literal's
\* group increase strictly, and the artifact holds the log as it stands at the
\* end.
C20_LogOrder ==
  /\ [][pc = "replace" =>
          \/ replacement_log' = replacement_log
          \/ /\ Len(replacement_log') = Len(replacement_log) + 1
             /\ SubSeq(replacement_log', 1, Len(replacement_log)) = replacement_log]_vars
  /\ [](Assigned =>
          /\ \A a \in 1..Len(replacement_log) :
               replacement_log[a].original_text \in RangeOf(sorted_texts)
          /\ \A a, b \in 1..Len(replacement_log) :
               a < b =>
                 /\ LiteralRank(replacement_log[a]) <= LiteralRank(replacement_log[b])
                 /\ LiteralRank(replacement_log[a]) = LiteralRank(replacement_log[b])
                      => replacement_log[a].position < replacement_log[b].position)
  /\ [](Returned => mapping.replacement_log = replacement_log)

\* a returned log with two records of one literal and a later record at a
\* smaller position than an earlier one
C20_Witness ==
  /\ Returned
  /\ \E a, b \in 1..Len(replacement_log) :
       /\ a < b
       /\ replacement_log[a].original_text = replacement_log[b].original_text
  /\ \E a, b \in 1..Len(replacement_log) :
       /\ a < b
       /\ replacement_log[a].position > replacement_log[b].position

\* the index in the artifact's log of a record of the sorted log
RecordOf(entry) ==
  CHOOSE k \in 1..Len(mapping.replacement_log) : mapping.replacement_log[k] = entry

\* where in the text r.text the characters of the token inserted by record k
\* are now (the text given is the text execute_replacement returned)
TokenOf(r, k) ==
  {j \in 1..Len(r.text) : r.origin[j] > 0 /\ inserted[r.origin[j]] = k}

\* actual_pos for a record whose placeholder is found in its window
ActualPos(r, entry) ==
  WindowStart(entry)
    + Find(Slice(r.text, WindowStart(entry), WindowEnd(r.text, entry)), entry.placeholder, 0)

\* C21: step A takes the records in descending recorded position; on the
\* unedited anonymized text every replacement it makes is at or after the
\* current record's recorded position, the tokens of the records still to
\* come stay where they are, and the token the current record created lies
\* in the record's search window.
C21_PositionAnchor ==
  /\ [](pc = "position" =>
          \A i, j \in 1..Len(sorted_log) :
            i < j => sorted_log[i].position >= sorted_log[j].position)
  /\ [][(pc = "position" /\ idx <= Len(sorted_log) /\ edits = 0) =>
          LET entry == sorted_log[idx]
              own   == TokenOf(running, RecordOf(entry))
          IN  /\ running'.position_matched > running.position_matched =>
                   ActualPos(running, entry) >= entry.position
              /\ \A i \in (idx + 1)..Len(sorted_log) :
                   TokenOf(running', RecordOf(sorted_log[i]))
                     = TokenOf(running, RecordOf(sorted_log[i]))
              /\ own # {}
              /\ Lo(own) - 1 >= WindowStart(entry)
              /\ Hi(own) <= WindowEnd(running.text, entry)]_vars

\* the offsets at which the record's placeholder lies wholly inside
\* [max(0, position - 50), min(len(text), position + len(placeholder) + 50))
WindowOccurrences(t, entry) ==
  LET lo == IF entry.position - PositionWindow < 0 THEN 0
            ELSE entry.position - PositionWindow
      up == entry.position + Len(entry.placeholder) + PositionWindow
      hi == IF Len(t) < up THEN Len(t) ELSE up
  IN  {p \in lo..(hi - Len(entry.placeholder)) :
         \A i \in 1..Len(entry.placeholder) : t[p + i] = entry.placeholder[i]}

\* new is old with the n characters at offset p replaced by the string by
ReplacedOnce(old, new, p, n, by) ==
  /\ Len(new) = Len(old) - n + Len(by)
  /\ \A i \in 1..p : new[i] = old[i]
  /\ \A i \in 1..Len(by) : new[p + i] = by[i]
  /\ \A i \in 1..(Len(old) - p - n) : new[p + Len(by) + i] = old[p + n + i]

\* C22: for each log record step A looks only at the window around the
\* recorded position in the current text.  When the placeholder occurs there,
\* the leftmost occurrence in the window, and nothing else, is replaced by
\* original_text and matched_count grows by 1; otherwise the text stays and
\* unmatched_count grows by 1.  At the end the two counts add up to the
\* length of the log.
C22_PositionStep ==
  /\ [][(pc = "position" /\ idx <= Len(sorted_log)) =>
          LET entry == sorted_log[idx]
              occ   == WindowOccurrences(running.text, entry)
          IN  IF occ # {}
              THEN /\ ReplacedOnce(running.text, running'.text, Lo(occ),
                                   Len(entry.placeholder), entry.original_text)
                   /\ running'.position_matched = running.position_matched + 1
                   /\ running'.position_unmatched = running.position_unmatched
              ELSE /\ running'.text = running.text
                   /\ running'.position_matched = running.position_matched
                   /\ running'.position_unmatched = running.position_unmatched + 1]_vars
  /\ [](pc \in {"context", "canonical", "done"} =>
          running.position_matched + running.position_unmatched
            = Len(mapping.replacement_log))

\* a record has just been counted unmatched although its placeholder is in the
\* text, beyond the window, and the next record is matched at an offset where
\* the window starts at 0
C22_Witness ==
  /\ pc = "position"
  /\ idx = 2
  /\ running.position_unmatched = 1
  /\ Contains(running.text, sorted_log[1].placeholder)
  /\ WindowOccurrences(running.text, sorted_log[1]) = {}
  /\ WindowOccurrences(running.text, sorted_log[2]) # {}

\* the log records that are candidates for a token, and the score of record k
\* for the token m of the text t
Candidates(m) ==
  {k \in 1..Len(mapping.replacement_log) : mapping.replacement_log[k].placeholder = m.token}
ScoreOf(t, m, k) ==
  TotalScore(Slice(t, Max(0, m.start - ContextChars), m.start),
             Slice(t, m.start + Len(m.token), m.start + Len(m.token) + ContextChars),
             mapping.replacement_log[k])

\* the fraction x is larger than the fraction y
Exceeds(x, y) == x.n * y.d > y.n * x.d

\* record k has the maximum score among the candidates for m, and is the
\* earliest record of the log that has it
EarliestBest(t, m, k) ==
  /\ k \in Candidates(m)
  /\ \A j \in Candidates(m) : ~Exceeds(ScoreOf(t, m, j), ScoreOf(t, m, k))
  /\ \A j \in Candidates(m) : j < k => Exceeds(ScoreOf(t, m, k), ScoreOf(t, m, j))

\* C23: step B takes as candidates for a token only the records whose
\* placeholder is the token's id.  A token that is replaced is replaced by the
\* original_text of the candidate with the maximum score, the earliest in the
\* log when several tie; a token without candidates stays and is not
\* counted; a text without tokens stays as it is with context_matched = 0.
C23_CandidateSelection ==
  /\ [][(pc = "context" /\ idx >= 1) =>
          LET m == matches[idx]
          IN  /\ running'.context_matched \in
                   {running.context_matched, running.context_matched + 1}
              /\ running'.context_matched = running.context_matched =>
                   running'.text = running.text
              /\ running'.context_matched > running.context_matched =>
                   \E k \in Candidates(m) :
                     /\ EarliestBest(running.text, m, k)
                     /\ ReplacedOnce(running.text, running'.text, m.start, Len(m.token),
                                     mapping.replacement_log[k].original_text)
              /\ Candidates(m) = {} =>
                   /\ running'.text = running.text
                   /\ running'.context_matched = running.context_matched]_vars
  /\ [][(pc = "context" /\ matches = <<>>) =>
          /\ running'.text = running.text
          /\ running'.context_matched = 0]_vars

\* step B has just replaced a token that had two candidates of equal,
\* maximal score and different original_text by the text of the earlier one
C23_Witness ==
  /\ pc = "context"
  /\ idx < Len(matches)
  /\ running.context_matched >= 1
  /\ LET m == matches[idx + 1]
     IN  \E k, j \in Candidates(m) :
           LET orig == mapping.replacement_log[k].original_text
               pre  == Splice(running.text, m.start, Len(orig), m.token)
           IN  /\ Slice(running.text, m.start, m.start + Len(orig)) = orig
               /\ EarliestBest(pre, m, k)
               /\ AboveThreshold(ScoreOf(pre, m, k))
               /\ k < j
               /\ ~Exceeds(ScoreOf(pre, m, k), ScoreOf(pre, m, j))
               /\ mapping.replacement_log[j].original_text # orig

\* the key a mention is grouped under, from its stripped canonical and text
KeyOfMention(e) ==
  LET c == Strip(e.canonical)
  IN  IF c # <<>> THEN c ELSE Strip(e.text)

\* what the mentions and the alias groups contribute to the group of a key
MentionMembers(key) ==
  UNION {{Strip(entities[i].text)}
           \cup (IF Strip(entities[i].canonical) # <<>>
                 THEN {Strip(entities[i].canonical)} ELSE {}) :
         i \in {j \in 1..Len(entities) :
                  Strip(entities[j].text) # <<>> /\ KeyOfMention(entities[j]) = key}}
AliasMembers(key) ==
  UNION {RangeOf(pass1_aliases[a].aliases) :
         a \in {b \in 1..Len(pass1_aliases) : pass1_aliases[b].canonical = key}}
MentionKeys ==
  {KeyOfMention(entities[i]) :
     i \in {j \in 1..Len(entities) : Strip(entities[j].text) # <<>>}}

\* step 1 of execute_replacement has just run; the groups, the placeholders
\* and the literal map stay as they are until the run returns
JustAssigned == pc = "replace" /\ lit = 1 /\ search_start = 0

\* C24: a mention whose text is not blank joins the group keyed by its
\* canonical, or by its own text when the canonical is empty, and gives the
\* group its text and its canonical; the aliases of an alias group go to the
\* group whose key is the alias group's canonical, and an alias group whose
\* canonical is no group key makes no group, no placeholder and no literal;
\* a placeholder's value is its group's key and its aliases are the group's
\* members without the key.
C24_AliasResolution ==
  JustAssigned =>
    /\ {canonical_groups[g].k : g \in 1..Len(canonical_groups)} = MentionKeys
    /\ Len(canonical_groups) = Cardinality(MentionKeys)
    /\ \A g \in 1..Len(canonical_groups) :
         canonical_groups[g].v.texts
           = MentionMembers(canonical_groups[g].k) \cup AliasMembers(canonical_groups[g].k)
    /\ Len(placeholder_map) = Len(canonical_groups)
    /\ \A g \in 1..Len(placeholder_map) :
         /\ placeholder_map[g].v.value = canonical_groups[g].k
         /\ placeholder_map[g].v.aliases
              = canonical_groups[g].v.texts \ {canonical_groups[g].k}
    /\ RangeOf(DictKeys(text_to_placeholder))
         = UNION {MentionMembers(k) \cup AliasMembers(k) : k \in MentionKeys}

\* the aliases of one alias group have joined the group of a mention that has
\* a canonical of its own, and another alias group names no group
C24_Witness ==
  /\ JustAssigned
  /\ \E a, b \in 1..Len(pass1_aliases) :
       /\ pass1_aliases[a].canonical \in MentionKeys
       /\ pass1_aliases[a].aliases # <<>>
       /\ pass1_aliases[b].canonical \notin MentionKeys
       /\ pass1_aliases[b].aliases # <<>>
       /\ ~HasKey(canonical_groups, pass1_aliases[b].canonical)
  /\ \E i \in 1..Len(entities) :
       /\ Strip(entities[i].canonical) # <<>>
       /\ Strip(entities[i].text) # <<>>
       /\ \E g \in 1..Len(placeholder_map) :
            /\ placeholder_map[g].v.value = Strip(entities[i].canonical)
            /\ Strip(entities[i].text) \in placeholder_map[g].v.aliases

\* C25: every segment _split_into_segments returns is at most max_chars long,
\* also when a paragraph longer than max_chars is cut by sentence, and no
\* segment is empty.
C25_SegmentBound ==
  scan.stage = "segmented" =>
    \A k \in 1..Len(scan.segments) :
      /\ Len(scan.segments[k]) <= scan.max_chars
      /\ scan.segments[k] # <<>>

\* the whole string is one match of the token pattern
IsToken(s) == s # <<>> /\ TokenLenAt(s, 0) = Len(s)

\* C26: every placeholder id that execute_replacement assigns is a match of
\* the token pattern of steps B and C, whatever the entity type, so every
\* token inserted is one that steps B and C find.
C26_IdsMatchGrammar ==
  Assigned => \A i \in 1..Len(placeholder_map) : IsToken(placeholder_map[i].k)

\* every brace of the text is a character of a token
BracesInTokens(t) ==
  \A i \in 1..Len(t) :
    t[i] \in {"{", "}"} =>
      \E k \in 1..Len(FindIter(t)) :
        FindIter(t)[k].start < i /\ i <= FindIter(t)[k].start + FindIter(t)[k].len

NoBrace(s) == \A i \in 1..Len(s) : s[i] \notin {"{", "}"}

\* the ids of the artifact are tokens, the strings it restores have no brace
CleanArtifact ==
  /\ \A i \in 1..Len(mapping.mappings) :
       IsToken(mapping.mappings[i].k) /\ NoBrace(mapping.mappings[i].v.value)
  /\ \A i \in 1..Len(mapping.replacement_log) :
       /\ IsToken(mapping.replacement_log[i].placeholder)
       /\ NoBrace(mapping.replacement_log[i].original_text)

\* the token m of the text given is still in the text returned
Survives(m) ==
  \E k \in 1..Len(Tokens(running.text)) :
    LET f == Tokens(running.text)[k]
    IN  Slice(running.origin, f.start, f.start + Len(f.token)) = TagsOf(m)

ResolvedIn(step) ==
  Cardinality({i \in 1..Len(running.resolved) : running.resolved[i].step = step})

\* C27: when every brace of the text given belongs to a token, the ids of the
\* artifact are tokens and the strings it restores have no brace, the four
\* counts of the stats add up to the number of tokens of the text given,
\* position_matched is at most total_in_log, and every token of the text
\* given is either replaced by exactly one step, which counted it, or left
\* and counted in remaining_placeholders.
C27_TokenAccounting ==
  (pc = "done" /\ BracesInTokens(given_text) /\ CleanArtifact) =>
    /\ stats.position_matched + stats.context_matched + stats.fallback_count
         + stats.remaining_placeholders = Len(Tokens(given_text))
    /\ stats.position_matched <= stats.total_in_log
    /\ stats.position_matched = ResolvedIn("A")
    /\ stats.context_matched = ResolvedIn("B")
    /\ stats.fallback_count = ResolvedIn("C")
    /\ \A t \in 1..Len(Tokens(given_text)) :
         LET m == Tokens(given_text)[t]
         IN  /\ Cardinality(Resolutions(m)) <= 1
             /\ Survives(m) <=> Resolutions(m) = {}
    /\ \A i \in 1..Len(running.resolved) :
         \E t \in 1..Len(Tokens(given_text)) :
           running.resolved[i].tags = TagsOf(Tokens(given_text)[t])

\* a text of four tokens has been restored: one by each step, one left
C27_Witness ==
  /\ pc = "done"
  /\ BracesInTokens(given_text)
  /\ CleanArtifact
  /\ Len(Tokens(given_text)) = 4
  /\ stats.position_matched = 1
  /\ stats.context_matched = 1
  /\ stats.fallback_count = 1
  /\ stats.remaining_placeholders = 1

\* the scanned match m is in the text t where the scan found it
StillThere(t, m) ==
  /\ m.start + Len(m.token) <= Len(t)
  /\ \A i \in 1..Len(m.token) : t[m.start + i] = m.token[i]

\* C28: steps B and C scan the text once and take the matches from the last
\* to the first with the offsets of that scan.  When a match is taken, and
\* for every match still to be taken, the current text holds the token at the
\* scanned offset, and a replacement changes the characters of that token
\* only: what is before the offset and what is after the token stay.
C28_OffsetsValid ==
  /\ [](pc \in {"context", "canonical"} =>
          \A i \in 1..idx : StillThere(running.text, matches[i]))
  /\ [][(pc \in {"context", "canonical"} /\ idx >= 1) =>
          LET m    == matches[idx]
              rest == Len(running.text) - m.start - Len(m.token)
          IN  /\ Len(running'.text) >= m.start + rest
              /\ \A i \in 1..m.start : running'.text[i] = running.text[i]
              /\ \A i \in 1..rest :
                   running'.text[Len(running'.text) - rest + i]
                     = running.text[Len(running.text) - rest + i]]_vars

\* step C has replaced a later token by a value longer than the token, and
\* has an earlier match still to take
C28_Witness ==
  /\ pc = "canonical"
  /\ idx >= 1
  /\ idx < Len(matches)
  /\ running.fallback_count >= 1
  /\ StillThere(running.text, matches[idx])
  /\ HasKey(mapping.mappings, matches[idx + 1].token)
  /\ LET value == DictGet(mapping.mappings, matches[idx + 1].token).value
     IN  /\ Len(value) > Len(matches[idx + 1].token)
         /\ Slice(running.text, matches[idx + 1].start,
                  matches[idx + 1].start + Len(value)) = value

\* the four gates of the page, in one session state
SessionGated ==
  /\ session.pass1_confirmed => session.pass1_result # NoResult
  /\ session.pass2_result # NoResult => session.pass1_confirmed
  /\ session.pass2_confirmed => session.pass2_result # NoResult
  /\ (session.anonymized_text # 0 \/ session.mapping_data # 0)
       => session.pass2_confirmed

\* every stored result was computed from the stored upload
ResultsDerived ==
  /\ session.pass1_result.of \in {0, session.uploaded_text}
  /\ session.pass2_result.of \in {0, session.uploaded_text}
  /\ session.anonymized_text \in {0, session.uploaded_text}
  /\ session.mapping_data \in {0, session.uploaded_text}
  /\ session.anonymized_file_bytes \in {0, session.uploaded_text}

\* this step put f into the uploader and f's name is not the stored one
UploadedAnew(f) ==
  /\ session.uploaded_file # f
  /\ session'.uploaded_file = f
  /\ session.uploaded_filename # f.name

\* after the step the text is f's and nothing is left of earlier results
ResetTo(f) ==
  /\ session'.uploaded_text = f.bytes
  /\ session'.pass1_result = InitialSession.pass1_result
  /\ session'.pass1_confirmed = InitialSession.pass1_confirmed
  /\ session'.pass2_result = InitialSession.pass2_result
  /\ session'.pass2_confirmed = InitialSession.pass2_confirmed
  /\ session'.anonymized_text = InitialSession.anonymized_text
  /\ session'.anonymized_file_bytes = InitialSession.anonymized_file_bytes
  /\ session'.mapping_data = InitialSession.mapping_data

\* C29: in every session state the four gates hold (a confirmation only with
\* its result, pass 2's result only after pass 1 is confirmed, the anonymized
\* text and the mapping only after pass 2 is confirmed) and every stored
\* result was computed from the stored text; and every upload of a file whose
\* name is not the stored one replaces the text and resets the results.
C29_WorkflowGating ==
  /\ [](SessionGated /\ ResultsDerived)
  /\ [][\A f \in PageFiles : UploadedAnew(f) => ResetTo(f)]_vars

\* the same with the reset asked only of files that read_uploaded_file reads
GatedAndResetWhenRead ==
  /\ [](SessionGated /\ ResultsDerived)
  /\ [][\A f \in PageFiles : UploadedAnew(f) /\ f.readable => ResetTo(f)]_vars

\* an upload that cannot be read leaves its bytes and extension beside the
\* text, the name and the results of the upload before it
HalfStoredUpload ==
  /\ session.uploaded_bytes # session.uploaded_text
  /\ session.uploaded_ext # FileExt(session.uploaded_filename)
  /\ session.pass2_confirmed

====
